---- MODULE Spec2Model ----
(***************************************************************************)
(* Element Hider content script (src/content.js, lines 1-394): the element *)
(* picker, the per-site selector store, the style applicator, the session  *)
(* undo history, and the asynchronous chrome.storage calls between them.   *)
(*                                                                         *)
(* Strings of the page (tag names, identifiers, class names, attribute     *)
(* values) are sequences of one-character strings, so that escaping,       *)
(* lower-casing and the regular-expression tests are computed character by *)
(* character; a selector is the TLA+ string obtained by concatenation.     *)
(*                                                                         *)
(* An async handler is one action per run-to-await segment: the segment    *)
(* that issues a storage call, and the segment that runs when that call    *)
(* settles (fulfilled or rejected).  A storage call takes effect on the    *)
(* storage area at the step at which it settles.                           *)
(***************************************************************************)
EXTENDS Integers, Sequences, FiniteSets, TLC

\* ------------------------------------------------------------------ bounds

\* async handler invocations that may be pending on a storage call at once
MaxOps == 2
\* cap on the length of pickerActionHistory (plus the pushes still pending)
MaxHistory == 2
\* wheel steps toward the parent that the observer follows after a hover
MaxWheelSteps == 3
\* reconciliation runs that may be waiting for their Store read at once
MaxRuns == 2
\* batches of a burst that the observer counts
MaxBurst == 2
\* children of <body> in the documents the synthesizer is run on
MaxChildren == 3
\* the step of the clock, in milliseconds
TickMs == 150

\* milliseconds that pass in one step of the throttle clock
ThrottleTickMs == 25

\* ------------------------------------------------------- character strings

RECURSIVE Str(_)
\* the string spelled by a sequence of characters
Str(cs) == IF cs = <<>> THEN "" ELSE Head(cs) \o Str(Tail(cs))

RECURSIVE Join(_, _)
\* Array.prototype.join
Join(parts, sep) ==
    IF parts = <<>> THEN ""
    ELSE IF Len(parts) = 1 THEN parts[1]
    ELSE parts[1] \o sep \o Join(Tail(parts), sep)

RECURSIVE SelectSeq2(_, _)
\* Array.prototype.filter with a set of kept values
SelectSeq2(s, keep) ==
    IF s = <<>> THEN <<>>
    ELSE IF Head(s) \in keep THEN <<Head(s)>> \o SelectSeq2(Tail(s), keep)
    ELSE SelectSeq2(Tail(s), keep)

\* includes applied to a value that is never an entry of the array
IncludesNever(s, x) == FALSE

\* Array.prototype.includes
Includes(s, x) == \E i \in 1..Len(s) : s[i] = x

\* String.prototype.toLowerCase, on one character
LowerChar(c) ==
    CASE c = "A" -> "a" [] c = "B" -> "b" [] c = "D" -> "d" [] c = "H" -> "h"
      [] c = "I" -> "i" [] c = "L" -> "l" [] c = "M" -> "m" [] c = "N" -> "n"
      [] c = "O" -> "o" [] c = "P" -> "p" [] c = "S" -> "s" [] c = "T" -> "t"
      [] c = "U" -> "u" [] c = "V" -> "v" [] c = "Y" -> "y"
      [] OTHER -> c

ToLowerCase(cs) == [i \in 1..Len(cs) |-> LowerChar(cs[i])]

\* whether pat occurs in cs as a substring
Contains(cs, pat) ==
    \E i \in 0..(Len(cs) - Len(pat)) :
        \A j \in 1..Len(pat) : cs[i + j] = pat[j]

\* ------------------------------------------------------------ the document

\* The page: element 1 is document.documentElement; parent 0 is null.
\*   <html><body>
\*     <div id="x"> <span class="y"></span> <span class="hover-z"></span> </div>
\*     <p data-testid="t" id="q"></p>
\*   </body></html>
NullElement == 0

DOM ==
    <<  [parent |-> 0, tagName |-> <<"H","T","M","L">>, id |-> <<>>,
         classList |-> <<>>, attrs |-> <<>>],
        [parent |-> 1, tagName |-> <<"B","O","D","Y">>, id |-> <<>>,
         classList |-> <<>>, attrs |-> <<>>],
        [parent |-> 2, tagName |-> <<"D","I","V">>, id |-> <<"x">>,
         classList |-> <<>>, attrs |-> <<>>],
        [parent |-> 3, tagName |-> <<"S","P","A","N">>, id |-> <<>>,
         classList |-> << <<"y">> >>, attrs |-> <<>>],
        [parent |-> 3, tagName |-> <<"S","P","A","N">>, id |-> <<>>,
         classList |-> << <<"h","o","v","e","r","-","z">> >>, attrs |-> <<>>],
        [parent |-> 2, tagName |-> <<"P">>, id |-> <<"q">>,
         classList |-> <<>>,
         attrs |-> << <<"data-testid", <<"t">> >> >>]
    >>

Elements == 1..Len(DOM)
documentElement == 1

\* Element.parentElement (NullElement for none)
ParentElement(dom, el) == dom[el].parent

\* Element.children, in document order
RECURSIVE ChildrenFrom(_, _, _)
ChildrenFrom(dom, p, i) ==
    IF i > Len(dom) THEN <<>>
    ELSE IF dom[i].parent = p THEN <<i>> \o ChildrenFrom(dom, p, i + 1)
    ELSE ChildrenFrom(dom, p, i + 1)

Children(dom, p) == ChildrenFrom(dom, p, 1)

\* Element.getAttribute: the value, or <<>> for an absent attribute (null and
\* the empty string are both falsy where the value is tested)
GetAttribute(dom, el, attr) ==
    IF \E i \in 1..Len(dom[el].attrs) : dom[el].attrs[i][1] = attr
    THEN LET i == CHOOSE k \in 1..Len(dom[el].attrs) : dom[el].attrs[k][1] = attr
         IN  dom[el].attrs[i][2]
    ELSE <<>>

\* what an element of a synthesized document may be: tag name, identifier,
\* class list and attributes (in the order the markup gives them)
Shapes ==
    { [tagName |-> <<"D","I","V">>, id |-> <<>>, classList |-> <<>>,
       attrs |-> <<>>],
      [tagName |-> <<"S","P","A","N">>, id |-> <<>>,
       classList |-> << <<"y">> >>, attrs |-> <<>>],
      [tagName |-> <<"S","P","A","N">>, id |-> <<>>,
       classList |-> << <<"i","n","a","c","t","i","v","e">>, <<"y",".","z">> >>,
       attrs |-> <<>>],
      [tagName |-> <<"S","P","A","N">>, id |-> <<>>,
       classList |-> << <<"f","o","c","u","s","-","x">>, <<"h","o","v","e","r">> >>,
       attrs |-> <<>>],
      [tagName |-> <<"D","I","V">>, id |-> <<"a",".","b">>,
       classList |-> << <<"y">> >>, attrs |-> <<>>],
      [tagName |-> <<"D","I","V">>, id |-> <<"m",":","n","#">>, classList |-> <<>>,
       attrs |-> <<>>],
      [tagName |-> <<"D","I","V">>, id |-> <<"p","[","0","]">>, classList |-> <<>>,
       attrs |-> << <<"data-testid", <<>> >> >>],
      [tagName |-> <<"P">>, id |-> <<"q">>, classList |-> << <<"y">> >>,
       attrs |-> << <<"name", <<"n">> >>, <<"data-cy", <<"c">> >> >>],
      [tagName |-> <<"D","I","V">>, id |-> <<>>, classList |-> <<>>,
       attrs |-> << <<"data-testid", <<>> >>, <<"aria-label", <<"l","\"">> >>,
                    <<"data-test", <<"t">> >> >>] }

Placed(shape, parent) ==
    [parent |-> parent, tagName |-> shape.tagName, id |-> shape.id,
     classList |-> shape.classList, attrs |-> shape.attrs]

\* the documents the synthesizer is run on: <html><body> with MaxChildren
\* children, the first of which has one child of its own
Documents ==
    { <<Placed([tagName |-> <<"H","T","M","L">>, id |-> <<>>,
                classList |-> <<>>, attrs |-> <<>>], NullElement),
        Placed([tagName |-> <<"B","O","D","Y">>, id |-> <<>>,
                classList |-> <<>>, attrs |-> <<>>], 1)>>
      \o [k \in 1..MaxChildren |-> Placed(f[k], 2)]
      \o <<Placed(g, 3)>> :
        f \in [1..MaxChildren -> Shapes],
        g \in {s \in Shapes : s.attrs = <<>> /\ s.id = <<>>} }

\* ------------------------------------------------------ selector synthesis

\* the character class of the regular expression in escapeCSS
CSSSpecial ==
    {"#", ";", "&", ",", ".", "+", "*", "~", "'", ":", "\"", "!", "^", "$",
     "[", "]", "(", ")", "<", "=", ">", "|", "/"}

escapeCSSNothing(cs) == Str(cs)

RECURSIVE escapeCSS(_)
escapeCSS(cs) ==
    IF cs = <<>> THEN ""
    ELSE (IF Head(cs) \in CSSSpecial THEN "\\" \o Head(cs) ELSE Head(cs))
         \o escapeCSS(Tail(cs))

stableAttrsReversed ==
    <<"aria-label", "name", "data-test", "data-cy", "data-testid">>

stableAttrs == <<"data-testid", "data-cy", "data-test", "name", "aria-label">>

\* /hover|active|focus/.test(c)
TransientClass(c) ==
    \/ Contains(c, <<"h","o","v","e","r">>)
    \/ Contains(c, <<"a","c","t","i","v","e">>)
    \/ Contains(c, <<"f","o","c","u","s">>)

RECURSIVE StableClasses(_)
\* classList.filter(...).map(c => '.' + escapeCSS(c)).join('')
StableClasses(classes) ==
    IF classes = <<>> THEN ""
    ELSE (IF TransientClass(Head(classes)) THEN ""
          ELSE "." \o escapeCSS(Head(classes)))
         \o StableClasses(Tail(classes))

IndexOfZeroBased(s, x) == (CHOOSE i \in 1..Len(s) : s[i] = x) - 1

\* sameTagSiblings.indexOf(current) + 1
IndexOf(s, x) == CHOOSE i \in 1..Len(s) : s[i] = x

\* one path segment of generateSelector
Segment(dom, current) ==
    LET siblings == Children(dom, dom[current].parent)
        sameTag  == {s \in 1..Len(dom) : dom[s].tagName = dom[current].tagName}
        sameTagSiblings == SelectSeq2(siblings, sameTag)
    IN  Str(ToLowerCase(dom[current].tagName))
        \o StableClasses(dom[current].classList)
        \o (IF Len(sameTagSiblings) > 1
            THEN ":nth-of-type(" \o ToString(IndexOf(sameTagSiblings, current)) \o ")"
            ELSE "")

RECURSIVE Path(_, _)
\* the while loop of generateSelector: segments from the root down to current
Path(dom, current) ==
    IF ParentElement(dom, current) = NullElement THEN <<>>
    ELSE Append(Path(dom, ParentElement(dom, current)), Segment(dom, current))

RECURSIVE FirstStableAttr(_, _, _)
\* the for loop over stableAttrs: index of the first attribute with a truthy
\* value, 0 when there is none
FirstStableAttr(dom, el, i) ==
    IF i > Len(stableAttrs) THEN 0
    ELSE IF GetAttribute(dom, el, stableAttrs[i]) # <<>> THEN i
    ELSE FirstStableAttr(dom, el, i + 1)

generateSelector(dom, el) ==
    LET a == FirstStableAttr(dom, el, 1)
    IN  IF a # 0
        THEN Str(ToLowerCase(dom[el].tagName)) \o "[" \o stableAttrs[a] \o "=\""
             \o Str(GetAttribute(dom, el, stableAttrs[a])) \o "\"]"
        ELSE IF dom[el].id # <<>> THEN "#" \o escapeCSS(dom[el].id)
        ELSE Join(Path(dom, el), " > ")

\* ------------------------------------------------------------- site store

\* the `selectors` object of chrome.storage.local is a function from the site
\* keys it holds to arrays of selectors; an absent object reads as the empty one
NoSites == <<>>

\* allSelectors[currentDomain] || []
DomainSelectors(allSelectors, domain) ==
    IF domain \in DOMAIN allSelectors THEN allSelectors[domain] ELSE <<>>

\* { ...allSelectors, [currentDomain]: newDomainSelectors }
WithDomain(allSelectors, domain, newDomainSelectors) ==
    [k \in (DOMAIN allSelectors) \cup {domain} |->
        IF k = domain THEN newDomainSelectors ELSE allSelectors[k]]

\* delete allSelectors[currentDomain]
WithoutDomain(allSelectors, domain) ==
    [k \in (DOMAIN allSelectors) \ {domain} |-> allSelectors[k]]

\* [selector, ...domainSelectors]
AddSelectorFront(domainSelectors, selector) == <<selector>> \o domainSelectors

\* [...domainSelectors, selector]
AddSelector(domainSelectors, selector) == Append(domainSelectors, selector)

\* domainSelectors.filter(s => s === selectorToRevert)
RemoveSelectorInverted(domainSelectors, selectorToRevert) ==
    SelectSeq(domainSelectors, LAMBDA s : s = selectorToRevert)

RECURSIVE RemoveSelector(_, _)
\* domainSelectors.filter(s => s !== selectorToRevert)
RemoveSelector(domainSelectors, selectorToRevert) ==
    IF domainSelectors = <<>> THEN <<>>
    ELSE IF Head(domainSelectors) # selectorToRevert
         THEN <<Head(domainSelectors)>>
              \o RemoveSelector(Tail(domainSelectors), selectorToRevert)
         ELSE RemoveSelector(Tail(domainSelectors), selectorToRevert)

\* the object written back with the emptied array kept under its key
RevertedKeepsEmpty(allSelectors, domain, newDomainSelectors) ==
    WithDomain(allSelectors, domain, newDomainSelectors)

\* the object revertLastAction writes back
RevertedSelectors(allSelectors, domain, newDomainSelectors) ==
    IF Len(newDomainSelectors) = 0
    THEN WithoutDomain(allSelectors, domain)
    ELSE WithDomain(allSelectors, domain, newDomainSelectors)

\* ------------------------------------------------------- style applicator

CssRule(selector) == selector \o " { display: none !important; }"

CssRules(selectors) == [i \in 1..Len(selectors) |-> CssRule(selectors[i])]

\* an applicator that never removes the element it injected before
updateHiddenElementsAppends(head, selectors) ==
    IF Len(selectors) = 0 THEN head
    ELSE Append(head, CssRules(selectors))

\* updateHiddenElements: `head` is the sequence of the style elements with
\* id element-hider-style in the document, each the sequence of the lines of
\* its textContent; getElementById finds the first of them
updateHiddenElements(head, selectors) ==
    LET removed == IF head # <<>> THEN Tail(head) ELSE head
    IN  IF Len(selectors) = 0 THEN removed
        ELSE Append(removed, CssRules(selectors))

\* ----------------------------------------------------------------- state

VARIABLES
    storedSelectors,       \* chrome.storage.local: the `selectors` object
    isPersistenceEnabled,  \* chrome.storage.local: "true", "false", "undefined"
    pickerActionHistory,   \* session history of picked selectors
    headStyles,            \* the style elements the applicator owns
    isPickerModeActive,    \* Picker: active flag
    highlightElement,      \* Picker: the highlighted element or NullElement
    traversalHistory,      \* Picker: stack of elements left by wheel-up
    inThrottleOver,        \* throttle closure of throttledMouseOver
    overTimer,             \* ms left on that closure's setTimeout
    inThrottleWheel,       \* throttle closure of handleWheel
    wheelTimer,            \* ms left on that closure's setTimeout
    outlined,              \* elements whose style.outline is the red outline
    cursor,                \* document.body.style.cursor
    listeners,             \* document's listeners added by the picker
    ops,                   \* async handler invocations awaiting storage
    defaultPrevented,      \* the last step called event.preventDefault()
    logged,                \* logger output of the last step
    trip,                  \* observer: a commit-then-revert run in sequence
    entryHistory,          \* observer: the history when each handler began
    wheelTrip,             \* observer: wheel steps since the last hover
    debounceTimeout,       \* startMutationObserver: the timer handle
    timers,                \* pending debounce timers: milliseconds left of each
    reconciling,           \* reconciliation runs waiting for their Store read
    readResults,           \* what the Store answered to runs not yet resumed
    inbox,                 \* updateSelectors messages sent by the popup
    sinceBatch,            \* observer: milliseconds since the last batch
    burst,                 \* observer: batches since the last run started
    response,              \* the argument of sendResponse in the last step
    staleOps,              \* observer: handlers begun before the last update
    earlierSession,        \* observer: commits begun before the last activation
    location,              \* window.location of the page (the tab's URL)
    contextValid,          \* chrome.runtime.id is defined
    observing,             \* the MutationObserver is connected
    doc,                   \* the document handed to the synthesizer
    synthesized            \* the last result of generateSelector

storeVars  == <<storedSelectors, isPersistenceEnabled>>
pickerVars == <<isPickerModeActive, highlightElement, traversalHistory,
                outlined, cursor, listeners>>
throttleVars == <<inThrottleOver, overTimer, inThrottleWheel, wheelTimer>>
vars == <<storedSelectors, isPersistenceEnabled, pickerActionHistory,
          headStyles, isPickerModeActive, highlightElement, traversalHistory,
          inThrottleOver, overTimer, inThrottleWheel, wheelTimer, outlined, cursor, listeners, ops,
          defaultPrevented, logged, trip, entryHistory, wheelTrip,
          debounceTimeout, timers, reconciling, readResults, inbox, sinceBatch, burst,
          response, staleOps, earlierSession, location, contextValid, observing, doc,
          synthesized>>
\* what no handler of content.js assigns
fixedVars == <<location, contextValid, observing, doc, synthesized>>
pageVars == <<debounceTimeout, timers, reconciling, readResults, inbox, sinceBatch, burst>>

\* ---------------------------------------------------------------- site key

\* content.js: the Site Key of the page
getCurrentDomain ==
    IF location.protocol = "file:" THEN "file://" ELSE location.hostname

\* String.prototype.startsWith
StartsWith(cs, prefix) ==
    /\ Len(cs) >= Len(prefix)
    /\ \A j \in 1..Len(prefix) : cs[j] = prefix[j]

\* the characters of the URL's protocol
ProtocolChars(protocol) ==
    CASE protocol = "https:"  -> <<"h","t","t","p","s",":">>
      [] protocol = "http:"   -> <<"h","t","t","p",":">>
      [] protocol = "file:"   -> <<"f","i","l","e",":">>
      [] protocol = "chrome:" -> <<"c","h","r","o","m","e",":">>

\* popup.js: the Site Key of the active tab, whose URL is the page's
getCurrentDomainFromActiveTab ==
    IF StartsWith(ProtocolChars(location.protocol), <<"c","h","r","o","m","e">>)
    THEN "chrome-internal"
    ELSE IF location.protocol = "file:" THEN "file-local"
    ELSE location.hostname

\* --------------------------------------------------------- async handlers

Slots == 1..MaxOps

NoOp == [kind |-> "none", pc |-> "none", selector |-> "",
         allSelectors |-> NoSites, domainSelectors |-> <<>>,
         newDomainSelectors |-> <<>>]

\* a handler suspended at `await chrome.storage.local.get(...)`
AwaitGet(kind, selector) ==
    [kind |-> kind, pc |-> "get", selector |-> selector,
     allSelectors |-> NoSites, domainSelectors |-> <<>>,
     newDomainSelectors |-> <<>>]

\* a handler suspended at `await chrome.storage.local.set({selectors: ...})`
AwaitSet(kind, selector, allSelectors, domainSelectors, newDomainSelectors) ==
    [kind |-> kind, pc |-> "set", selector |-> selector,
     allSelectors |-> allSelectors, domainSelectors |-> domainSelectors,
     newDomainSelectors |-> newDomainSelectors]

Pending(kind) == {i \in Slots : ops[i].kind = kind}
FreeSlots == Pending("none")
FreeSlot == CHOOSE i \in FreeSlots : \A j \in FreeSlots : i <= j

\* pushes onto pickerActionHistory that pending handlers may still make
PendingPushes == Cardinality(Pending("commit")) + Cardinality(Pending("revert"))

\* ---------------------------------------------------------------- picker

Listener(type, handler, capture) ==
    [type |-> type, handler |-> handler, capture |-> capture]

\* the five addEventListener calls of activate
AddedListeners ==
    { Listener("mouseover", "throttledMouseOver", FALSE),
      Listener("mouseout", "handleMouseOut", FALSE),
      Listener("keydown", "handleKeydownCancel", TRUE),
      Listener("mousedown", "handleMouseAction", TRUE),
      Listener("wheel", "handleWheel", TRUE) }

\* removeEventListener('wheel', handleWheel) without the capture option
RemovedListenersWheelBubble ==
    { Listener("mouseover", "throttledMouseOver", FALSE),
      Listener("mouseout", "handleMouseOut", FALSE),
      Listener("keydown", "handleKeydownCancel", TRUE),
      Listener("mousedown", "handleMouseAction", TRUE),
      Listener("wheel", "handleWheel", FALSE) }

\* the five removeEventListener calls of deactivate
RemovedListeners ==
    { Listener("mouseover", "throttledMouseOver", FALSE),
      Listener("mouseout", "handleMouseOut", FALSE),
      Listener("keydown", "handleKeydownCancel", TRUE),
      Listener("mousedown", "handleMouseAction", TRUE),
      Listener("wheel", "handleWheel", TRUE) }

\* Picker.activate()
activate ==
    IF isPickerModeActive
    THEN UNCHANGED pickerVars
    ELSE /\ isPickerModeActive' = TRUE
         /\ traversalHistory' = <<>>
         /\ cursor' = "crosshair"
         /\ listeners' = listeners \cup AddedListeners
         /\ UNCHANGED <<highlightElement, outlined>>

activateLog ==
    IF isPickerModeActive THEN <<>> ELSE <<"Picker mode ACTIVATED.">>

\* Picker.deactivate()
deactivate ==
    IF ~isPickerModeActive
    THEN UNCHANGED pickerVars
    ELSE /\ isPickerModeActive' = FALSE
         /\ cursor' = "default"
         /\ outlined' = outlined \ {highlightElement}
         /\ highlightElement' = NullElement
         /\ listeners' = listeners \ RemovedListeners
         /\ UNCHANGED traversalHistory

deactivateLog ==
    IF isPickerModeActive THEN <<"Picker mode DEACTIVATED.">> ELSE <<>>

\* --------------------------------------------------------------- observer

\* The observer variables record nothing the program reads.  `entryHistory`
\* holds, for each pending handler, pickerActionHistory as it was when the
\* handler was entered.  It follows one commit that runs
\* alone from a state with no handler pending and, if the next handler to run
\* is a revert that also runs alone, that revert; it holds the Selector Set of
\* the current site and the session history as they were before the commit.
NoTrip == [phase |-> "none", domainSelectors |-> <<>>, history |-> <<>>]

\* `wheelTrip` follows the wheel after a handled hover: the element hovered,
\* the handled steps toward the parent, then the handled steps back
NoWheel == [base |-> NullElement, up |-> 0, down |-> 0]

UpMessages == {"Scrolled UP to parent:", "At root, cannot scroll up further."}

DownMessages == {"Scrolled DOWN to child:",
                 "At base of traversal, cannot scroll down further."}

\* what the updateSelectors branch of the message listener logs
HistoryClearedLog == "Session history cleared due to manual update from popup."

\* no call of sendResponse
NoResponse == ""

\* no result of the synthesizer yet
NoSelector == [el |-> NullElement, selector |-> ""]

Quiet(o) == \A i \in Slots : o[i].kind = "none"

OnlyPending(o, kind, pc) ==
    \E i \in Slots :
        /\ o[i].kind = kind /\ o[i].pc = pc
        /\ \A j \in Slots \ {i} : o[j].kind = "none"

Observe ==
    /\ entryHistory' =
          [i \in Slots |->
              IF ops'[i].kind = "none" THEN <<>>
              ELSE IF ops[i].kind = "none" THEN pickerActionHistory
              ELSE entryHistory[i]]
    /\ trip' =
        IF /\ ops' = ops
           /\ storedSelectors' = storedSelectors
           /\ pickerActionHistory' = pickerActionHistory
        THEN trip
        ELSE IF Quiet(ops) /\ OnlyPending(ops', "commit", "get")
        THEN [phase |-> "commit",
              domainSelectors |-> DomainSelectors(storedSelectors, getCurrentDomain),
              history |-> pickerActionHistory]
        ELSE IF trip.phase = "commit" /\ OnlyPending(ops', "commit", "set")
        THEN trip
        ELSE IF /\ trip.phase = "commit" /\ Quiet(ops')
                /\ Len(pickerActionHistory') > Len(pickerActionHistory)
        THEN [trip EXCEPT !.phase = "committed"]
        ELSE IF trip.phase = "committed" /\ OnlyPending(ops', "revert", "get")
        THEN [trip EXCEPT !.phase = "revert"]
        ELSE IF trip.phase = "revert" /\ OnlyPending(ops', "revert", "set")
        THEN trip
        ELSE IF /\ trip.phase = "revert" /\ Quiet(ops')
                /\ pickerActionHistory' = pickerActionHistory
        THEN [trip EXCEPT !.phase = "reverted"]
        ELSE NoTrip
    /\ wheelTrip' =
        IF ~inThrottleOver /\ inThrottleOver'
        THEN [base |-> highlightElement', up |-> 0, down |-> 0]
        ELSE IF logged' # <<>> /\ logged'[1] \in UpMessages
        THEN IF /\ wheelTrip.base # NullElement /\ wheelTrip.down = 0
                /\ wheelTrip.up < MaxWheelSteps
             THEN [wheelTrip EXCEPT !.up = @ + 1]
             ELSE NoWheel
        ELSE IF logged' # <<>> /\ logged'[1] \in DownMessages
        THEN IF wheelTrip.base # NullElement /\ wheelTrip.down < wheelTrip.up
             THEN [wheelTrip EXCEPT !.down = @ + 1]
             ELSE IF wheelTrip.up = 0 THEN wheelTrip
             ELSE NoWheel
        ELSE IF <<highlightElement, traversalHistory>>'
                  # <<highlightElement, traversalHistory>>
        THEN NoWheel
        ELSE wheelTrip
    /\ staleOps' =
        IF logged' = <<HistoryClearedLog>>
        THEN {i \in Slots : ops'[i].kind # "none"}
        ELSE {i \in staleOps : ops'[i].kind # "none"}
    /\ earlierSession' =
        IF ~isPickerModeActive /\ isPickerModeActive'
        THEN {i \in Slots : ops'[i].kind = "commit"}
        ELSE {i \in earlierSession : ops'[i].kind # "none"}

\* ------------------------------------------------- the observer's timer

\* the delay of the debounce timer, in milliseconds
DebounceDelay == 300

Min(a, b) == IF a < b THEN a ELSE b
Max(a, b) == IF a < b THEN b ELSE a

\* clearTimeout(debounceTimeout): the timer armed last, if it is still pending
ClearTimeout(pending, handle) ==
    IF handle = "pending" THEN SubSeq(pending, 1, Len(pending) - 1) ELSE pending

\* an applicator that appends its style element under <body>
StyleContainerBody == "body"

\* the node updateHiddenElements appends its style element to (document.head)
StyleContainer == "head"

\* the node the MutationObserver is attached to, with subtree: true
ObservedRoot == "body"

\* <html> holds <head> and <body>, in this order
InSubtree(node, root) == node = root \/ root = "html"

\* what a handler's call of updateHiddenElements(selectors) does to the
\* observer's timer: removing or appending the style element is a child-list
\* mutation of its container, which the observer's callback sees when the
\* container is in the observed subtree
Rendering(called, selectors) ==
    IF /\ called
       /\ headStyles # <<>> \/ Len(selectors) > 0
       /\ observing
       /\ InSubtree(StyleContainer, ObservedRoot)
    THEN /\ timers' = Append(ClearTimeout(timers, debounceTimeout), DebounceDelay)
         /\ debounceTimeout' = "pending"
         /\ sinceBatch' = 0
         /\ burst' = Min(burst + 1, MaxBurst)
    ELSE UNCHANGED <<debounceTimeout, timers, sinceBatch, burst>>

\* ---------------------------------------------------- messages and keys

\* a toggle that also starts a fresh session history
MsgToggleClearsHistory ==
    /\ IF isPickerModeActive THEN deactivate ELSE activate
    /\ logged' = (IF isPickerModeActive THEN deactivateLog ELSE activateLog)
    /\ defaultPrevented' = FALSE
    /\ pickerActionHistory' = <<>>
    /\ UNCHANGED <<storeVars, headStyles, throttleVars, ops>>
    /\ UNCHANGED pageVars
    /\ response' = "Picker mode toggled"
    /\ UNCHANGED fixedVars
    /\ Observe

\* onMessage: request.action === 'togglePickerMode'
MsgTogglePickerMode ==
    /\ IF isPickerModeActive THEN deactivate ELSE activate
    /\ logged' = (IF isPickerModeActive THEN deactivateLog ELSE activateLog)
    /\ defaultPrevented' = FALSE
    /\ UNCHANGED <<storeVars, pickerActionHistory, headStyles, throttleVars, ops>>
    /\ UNCHANGED pageVars
    /\ response' = "Picker mode toggled"
    /\ UNCHANGED fixedVars
    /\ Observe

\* a key handler that forgets to call deactivate
handleKeydownNoCancel ==
    /\ Listener("keydown", "handleKeydownCancel", TRUE) \in listeners
    /\ defaultPrevented' = TRUE
    /\ logged' = <<"Key press detected. Cancelling selection.">>
    /\ UNCHANGED <<storeVars, pickerActionHistory, headStyles, pickerVars,
                   throttleVars, ops>>
    /\ UNCHANGED pageVars
    /\ response' = NoResponse
    /\ UNCHANGED fixedVars
    /\ Observe

\* handleKeydownCancel, for any key
handleKeydownCancel ==
    /\ Listener("keydown", "handleKeydownCancel", TRUE) \in listeners
    /\ defaultPrevented' = TRUE
    /\ deactivate
    /\ logged' = <<"Key press detected. Cancelling selection.">> \o deactivateLog
    /\ UNCHANGED <<storeVars, pickerActionHistory, headStyles, throttleVars, ops>>
    /\ UNCHANGED pageVars
    /\ response' = NoResponse
    /\ UNCHANGED fixedVars
    /\ Observe

\* ----------------------------------------------------------------- commit

\* handleMouseAction up to its first await: a button other than 0 cancels,
\* button 0 synthesizes the selector of event.target and issues the Store read
handleMouseAction(target, button) ==
    /\ Listener("mousedown", "handleMouseAction", TRUE) \in listeners
    /\ defaultPrevented' = TRUE
    /\ IF button # 0
       THEN /\ deactivate
            /\ logged' = <<"Mouse button press detected. Cancelling selection.">>
                         \o deactivateLog
            /\ UNCHANGED <<storeVars, pickerActionHistory, headStyles,
                           throttleVars, ops>>
       ELSE /\ FreeSlots # {}
            /\ Len(pickerActionHistory) + PendingPushes < MaxHistory
            /\ ops' = [ops EXCEPT ![FreeSlot] =
                          AwaitGet("commit", generateSelector(DOM, target))]
            /\ logged' = <<"Left mouse press CONFIRMED selection.">>
            /\ UNCHANGED <<storeVars, pickerActionHistory, headStyles,
                           pickerVars, throttleVars>>
    /\ UNCHANGED pageVars
    /\ response' = NoResponse
    /\ UNCHANGED fixedVars
    /\ Observe

\* the read continuation with deactivate() after the write instead of in a
\* finally block: the already-present branch leaves the picker as it is
CommitGetFulfilledNoFinally(i) ==
    /\ ops[i].kind = "commit" /\ ops[i].pc = "get"
    /\ LET selector        == ops[i].selector
           domainSelectors == DomainSelectors(storedSelectors, getCurrentDomain)
           newDomainSelectors == AddSelector(domainSelectors, selector)
       IN  IF ~Includes(domainSelectors, selector)
           THEN /\ ops' = [ops EXCEPT ![i] =
                              AwaitSet("commit", selector,
                                       WithDomain(storedSelectors, getCurrentDomain,
                                                  newDomainSelectors),
                                       domainSelectors, newDomainSelectors)]
                /\ logged' = <<>>
           ELSE /\ ops' = [ops EXCEPT ![i] = NoOp]
                /\ logged' = <<"Selector already exists for domain:">>
    /\ defaultPrevented' = FALSE
    /\ UNCHANGED <<storeVars, pickerActionHistory, headStyles, pickerVars,
                   throttleVars>>
    /\ UNCHANGED pageVars
    /\ response' = NoResponse
    /\ UNCHANGED fixedVars
    /\ Observe

\* handleMouseAction resumed with the result of the Store read
CommitGetFulfilled(i) ==
    /\ ops[i].kind = "commit" /\ ops[i].pc = "get"
    /\ LET selector        == ops[i].selector
           allSelectors    == storedSelectors
           currentDomain   == getCurrentDomain
           domainSelectors == DomainSelectors(allSelectors, currentDomain)
           newDomainSelectors == AddSelector(domainSelectors, selector)
           newAllSelectors == WithDomain(allSelectors, currentDomain,
                                         newDomainSelectors)
       IN  IF ~Includes(domainSelectors, selector)
           THEN /\ ops' = [ops EXCEPT ![i] =
                              AwaitSet("commit", selector, newAllSelectors,
                                       domainSelectors, newDomainSelectors)]
                /\ logged' = <<>>
                /\ UNCHANGED pickerVars
           ELSE /\ ops' = [ops EXCEPT ![i] = NoOp]
                /\ deactivate
                /\ logged' = <<"Selector already exists for domain:">>
                             \o deactivateLog
    /\ defaultPrevented' = FALSE
    /\ UNCHANGED <<storeVars, pickerActionHistory, headStyles, throttleVars>>
    /\ UNCHANGED pageVars
    /\ response' = NoResponse
    /\ UNCHANGED fixedVars
    /\ Observe

\* handleMouseAction resumed after the Store write
CommitSetFulfilled(i) ==
    /\ ops[i].kind = "commit" /\ ops[i].pc = "set"
    /\ storedSelectors' = ops[i].allSelectors
    /\ headStyles' = updateHiddenElements(headStyles, ops[i].newDomainSelectors)
    /\ pickerActionHistory' = Append(pickerActionHistory, ops[i].selector)
    /\ deactivate
    /\ logged' = <<"Selector saved and applied for domain:">> \o deactivateLog
    /\ ops' = [ops EXCEPT ![i] = NoOp]
    /\ defaultPrevented' = FALSE
    /\ UNCHANGED <<isPersistenceEnabled, throttleVars>>
    /\ Rendering(TRUE, ops[i].newDomainSelectors)
    /\ UNCHANGED <<reconciling, readResults, inbox>>
    /\ response' = NoResponse
    /\ UNCHANGED fixedVars
    /\ Observe

\* the rejection caught without a finally block: the picker stays as it is
CommitRejectedNoFinally(i) ==
    /\ ops[i].kind = "commit"
    /\ logged' = <<"An error occurred while handling the click.">>
    /\ ops' = [ops EXCEPT ![i] = NoOp]
    /\ defaultPrevented' = FALSE
    /\ UNCHANGED <<storeVars, pickerActionHistory, headStyles, pickerVars,
                   throttleVars>>
    /\ UNCHANGED pageVars
    /\ response' = NoResponse
    /\ UNCHANGED fixedVars
    /\ Observe

\* handleMouseAction: the Store read or the Store write rejects; catch, finally
CommitRejected(i) ==
    /\ ops[i].kind = "commit"
    /\ deactivate
    /\ logged' = <<"An error occurred while handling the click.">>
                 \o deactivateLog
    /\ ops' = [ops EXCEPT ![i] = NoOp]
    /\ defaultPrevented' = FALSE
    /\ UNCHANGED <<storeVars, pickerActionHistory, headStyles, throttleVars>>
    /\ UNCHANGED pageVars
    /\ response' = NoResponse
    /\ UNCHANGED fixedVars
    /\ Observe

\* ----------------------------------------------------------------- revert

\* the empty-history branch without its return: the handler goes on to pop
\* (undefined) and to issue the Store read
RevertNothingFallsThrough ==
    /\ FreeSlots # {}
    /\ logged' = <<"No actions in session history to revert. NormalMSG">>
    /\ ops' = [ops EXCEPT ![FreeSlot] = AwaitGet("revert", "undefined")]
    /\ UNCHANGED pickerActionHistory

\* the branch of revertLastAction taken on an empty history
RevertNothing ==
    /\ logged' = <<"No actions in session history to revert. NormalMSG">>
    /\ UNCHANGED <<pickerActionHistory, ops>>

\* onMessage 'revertLastAction': revertLastAction up to its first await
MsgRevertLastAction ==
    /\ IF Len(pickerActionHistory) = 0
       THEN RevertNothing
       ELSE /\ FreeSlots # {}
            /\ pickerActionHistory' =
                   SubSeq(pickerActionHistory, 1, Len(pickerActionHistory) - 1)
            /\ ops' = [ops EXCEPT ![FreeSlot] =
                   AwaitGet("revert", pickerActionHistory[Len(pickerActionHistory)])]
            /\ logged' = <<"Reverting selector:">>
    /\ defaultPrevented' = FALSE
    /\ UNCHANGED <<storeVars, headStyles, pickerVars, throttleVars>>
    /\ UNCHANGED pageVars
    /\ response' = "Revert action triggered"
    /\ UNCHANGED fixedVars
    /\ Observe

\* revertLastAction resumed with the result of the Store read
RevertGetFulfilled(i) ==
    /\ ops[i].kind = "revert" /\ ops[i].pc = "get"
    /\ LET selectorToRevert == ops[i].selector
           allSelectors     == storedSelectors
           currentDomain    == getCurrentDomain
           domainSelectors  == DomainSelectors(allSelectors, currentDomain)
           newDomainSelectors == RemoveSelector(domainSelectors, selectorToRevert)
       IN  ops' = [ops EXCEPT ![i] =
                      AwaitSet("revert", selectorToRevert,
                               RevertedSelectors(allSelectors, currentDomain,
                                                 newDomainSelectors),
                               domainSelectors, newDomainSelectors)]
    /\ logged' = <<>>
    /\ defaultPrevented' = FALSE
    /\ UNCHANGED <<storeVars, pickerActionHistory, headStyles, pickerVars,
                   throttleVars>>
    /\ UNCHANGED pageVars
    /\ response' = NoResponse
    /\ UNCHANGED fixedVars
    /\ Observe

\* revertLastAction resumed after the Store write
RevertSetFulfilled(i) ==
    /\ ops[i].kind = "revert" /\ ops[i].pc = "set"
    /\ storedSelectors' = ops[i].allSelectors
    /\ headStyles' = updateHiddenElements(headStyles, ops[i].newDomainSelectors)
    /\ ops' = [ops EXCEPT ![i] = NoOp]
    /\ logged' = <<>>
    /\ defaultPrevented' = FALSE
    /\ UNCHANGED <<isPersistenceEnabled, pickerActionHistory, pickerVars,
                   throttleVars>>
    /\ Rendering(TRUE, ops[i].newDomainSelectors)
    /\ UNCHANGED <<reconciling, readResults, inbox>>
    /\ response' = NoResponse
    /\ UNCHANGED fixedVars
    /\ Observe

\* the catch block of revertLastAction
RevertCatch(history, selectorToRevert) == Append(history, selectorToRevert)

\* revertLastAction: the Store read or the Store write rejects
RevertRejected(i) ==
    /\ ops[i].kind = "revert"
    /\ pickerActionHistory' = RevertCatch(pickerActionHistory, ops[i].selector)
    /\ ops' = [ops EXCEPT ![i] = NoOp]
    /\ logged' = <<"Error during revert action:">>
    /\ defaultPrevented' = FALSE
    /\ UNCHANGED <<storeVars, headStyles, pickerVars, throttleVars>>
    /\ UNCHANGED pageVars
    /\ response' = NoResponse
    /\ UNCHANGED fixedVars
    /\ Observe

\* ------------------------------------------------------------- initialize

\* an initialize that renders whatever the flag says
InitializeIgnoresFlag(i) ==
    /\ ops[i].kind = "initialize" /\ ops[i].pc = "get"
    /\ LET domainSelectors == DomainSelectors(storedSelectors, getCurrentDomain)
       IN  headStyles' = IF Len(domainSelectors) > 0
                         THEN updateHiddenElements(headStyles, domainSelectors)
                         ELSE headStyles
    /\ ops' = [ops EXCEPT ![i] = NoOp]
    /\ logged' = <<>>
    /\ defaultPrevented' = FALSE
    /\ UNCHANGED <<storeVars, pickerActionHistory, pickerVars, throttleVars>>
    /\ UNCHANGED pageVars
    /\ response' = NoResponse
    /\ UNCHANGED fixedVars
    /\ Observe

\* initialize resumed with the result of its Store read
InitializeFulfilled(i) ==
    /\ ops[i].kind = "initialize" /\ ops[i].pc = "get"
    /\ LET shouldPersist   == isPersistenceEnabled # "false"
           currentDomain   == getCurrentDomain
           domainSelectors == DomainSelectors(storedSelectors, currentDomain)
       IN  headStyles' = IF shouldPersist /\ Len(domainSelectors) > 0
                         THEN updateHiddenElements(headStyles, domainSelectors)
                         ELSE headStyles
    /\ ops' = [ops EXCEPT ![i] = NoOp]
    /\ logged' = <<>>
    /\ defaultPrevented' = FALSE
    /\ UNCHANGED <<storeVars, pickerActionHistory, pickerVars, throttleVars>>
    /\ Rendering(/\ isPersistenceEnabled # "false"
                 /\ Len(DomainSelectors(storedSelectors, getCurrentDomain)) > 0,
                 DomainSelectors(storedSelectors, getCurrentDomain))
    /\ UNCHANGED <<reconciling, readResults, inbox>>
    /\ response' = NoResponse
    /\ UNCHANGED fixedVars
    /\ Observe

\* initialize: the Store read rejects
InitializeRejected(i) ==
    /\ ops[i].kind = "initialize" /\ ops[i].pc = "get"
    /\ ops' = [ops EXCEPT ![i] = NoOp]
    /\ logged' = <<"Failed to initialize.">>
    /\ defaultPrevented' = FALSE
    /\ UNCHANGED <<storeVars, pickerActionHistory, headStyles, pickerVars,
                   throttleVars>>
    /\ UNCHANGED pageVars
    /\ response' = NoResponse
    /\ UNCHANGED fixedVars
    /\ Observe

\* ------------------------------------------------------- hover and wheel

\* throttle(..., 100): the limit of the wheel gate, in milliseconds
WheelLimit == 100

\* a hover gate given the wheel's limit
MouseOverLimitOfWheel == WheelLimit

\* throttle(..., 50): the limit of the hover gate, in milliseconds
MouseOverLimit == 50

\* a hover handler without `traversalHistory = []`
throttledMouseOverKeepsStack(target) ==
    /\ Listener("mouseover", "throttledMouseOver", FALSE) \in listeners
    /\ IF ~inThrottleOver
       THEN /\ outlined' = (outlined \ {highlightElement}) \cup {target}
            /\ highlightElement' = target
            /\ inThrottleOver' = TRUE
            /\ overTimer' = MouseOverLimit
            /\ UNCHANGED <<isPickerModeActive, traversalHistory, cursor, listeners>>
       ELSE UNCHANGED <<pickerVars, inThrottleOver, overTimer>>
    /\ logged' = <<>>
    /\ defaultPrevented' = FALSE
    /\ UNCHANGED <<storeVars, pickerActionHistory, headStyles, inThrottleWheel, wheelTimer, ops>>
    /\ UNCHANGED pageVars
    /\ response' = NoResponse
    /\ UNCHANGED fixedVars
    /\ Observe

\* throttledMouseOver: the throttle gate, then the hover handler
throttledMouseOver(target) ==
    /\ Listener("mouseover", "throttledMouseOver", FALSE) \in listeners
    /\ IF ~inThrottleOver
       THEN /\ outlined' = (outlined \ {highlightElement}) \cup {target}
            /\ highlightElement' = target
            /\ traversalHistory' = <<>>
            /\ inThrottleOver' = TRUE
            /\ overTimer' = MouseOverLimit
            /\ UNCHANGED <<isPickerModeActive, cursor, listeners>>
       ELSE UNCHANGED <<pickerVars, inThrottleOver, overTimer>>
    /\ logged' = <<>>
    /\ defaultPrevented' = FALSE
    /\ UNCHANGED <<storeVars, pickerActionHistory, headStyles, inThrottleWheel, wheelTimer, ops>>
    /\ UNCHANGED pageVars
    /\ response' = NoResponse
    /\ UNCHANGED fixedVars
    /\ Observe

\* the timer of throttledMouseOver's gate (50 ms) runs its callback; where no
\* clock is kept this step stands for the delay passing as well
ThrottleOverTimeout ==
    /\ inThrottleOver
    /\ inThrottleOver' = FALSE
    /\ overTimer' = 0
    /\ logged' = <<>>
    /\ defaultPrevented' = FALSE
    /\ UNCHANGED <<storeVars, pickerActionHistory, headStyles, pickerVars,
                   inThrottleWheel, wheelTimer, ops>>
    /\ UNCHANGED pageVars
    /\ response' = NoResponse
    /\ UNCHANGED fixedVars
    /\ Observe

\* a pointer-leave handler that drops the reference and leaves the outline
handleMouseOutKeepsOutline(target) ==
    /\ Listener("mouseout", "handleMouseOut", FALSE) \in listeners
    /\ IF target # NullElement /\ target = highlightElement
       THEN /\ highlightElement' = NullElement
            /\ UNCHANGED <<isPickerModeActive, traversalHistory, outlined,
                           cursor, listeners>>
       ELSE UNCHANGED pickerVars
    /\ logged' = <<>>
    /\ defaultPrevented' = FALSE
    /\ UNCHANGED <<storeVars, pickerActionHistory, headStyles, throttleVars, ops>>
    /\ UNCHANGED pageVars
    /\ response' = NoResponse
    /\ UNCHANGED fixedVars
    /\ Observe

\* handleMouseOut
handleMouseOut(target) ==
    /\ Listener("mouseout", "handleMouseOut", FALSE) \in listeners
    /\ IF target # NullElement /\ target = highlightElement
       THEN /\ outlined' = outlined \ {highlightElement}
            /\ highlightElement' = NullElement
            /\ UNCHANGED <<isPickerModeActive, traversalHistory, cursor, listeners>>
       ELSE UNCHANGED pickerVars
    /\ logged' = <<>>
    /\ defaultPrevented' = FALSE
    /\ UNCHANGED <<storeVars, pickerActionHistory, headStyles, throttleVars, ops>>
    /\ UNCHANGED pageVars
    /\ response' = NoResponse
    /\ UNCHANGED fixedVars
    /\ Observe

\* a wheel handler that moves to the parent without saving the element left
WheelBodyNoPush(deltaY) ==
    IF highlightElement = NullElement \/ ~isPickerModeActive
    THEN /\ logged' = <<>>
         /\ UNCHANGED pickerVars
    ELSE IF deltaY < 0
    THEN LET parent == ParentElement(DOM, highlightElement)
         IN  IF parent # NullElement /\ parent # documentElement
             THEN /\ outlined' = (outlined \ {highlightElement}) \cup {parent}
                  /\ highlightElement' = parent
                  /\ logged' = <<"Scrolled UP to parent:">>
                  /\ UNCHANGED <<isPickerModeActive, traversalHistory, cursor,
                                 listeners>>
             ELSE /\ logged' = <<"At root, cannot scroll up further.">>
                  /\ UNCHANGED pickerVars
    ELSE IF deltaY > 0
    THEN IF Len(traversalHistory) > 0
         THEN LET child == traversalHistory[Len(traversalHistory)]
              IN  /\ traversalHistory' =
                         SubSeq(traversalHistory, 1, Len(traversalHistory) - 1)
                  /\ outlined' = (outlined \ {highlightElement}) \cup {child}
                  /\ highlightElement' = child
                  /\ logged' = <<"Scrolled DOWN to child:">>
                  /\ UNCHANGED <<isPickerModeActive, cursor, listeners>>
         ELSE /\ logged' = <<"At base of traversal, cannot scroll down further.">>
              /\ UNCHANGED pickerVars
    ELSE /\ logged' = <<>>
         /\ UNCHANGED pickerVars

\* a wheel handler that saves the parent it moves to, not the element it leaves
WheelBodyPushesParent(deltaY) ==
    IF highlightElement = NullElement \/ ~isPickerModeActive
    THEN /\ logged' = <<>>
         /\ UNCHANGED pickerVars
    ELSE IF deltaY < 0
    THEN LET parent == ParentElement(DOM, highlightElement)
         IN  IF parent # NullElement /\ parent # documentElement
             THEN /\ traversalHistory' = Append(traversalHistory, parent)
                  /\ outlined' = (outlined \ {highlightElement}) \cup {parent}
                  /\ highlightElement' = parent
                  /\ logged' = <<"Scrolled UP to parent:">>
                  /\ UNCHANGED <<isPickerModeActive, cursor, listeners>>
             ELSE /\ logged' = <<"At root, cannot scroll up further.">>
                  /\ UNCHANGED pickerVars
    ELSE IF deltaY > 0
    THEN IF Len(traversalHistory) > 0
         THEN LET child == traversalHistory[Len(traversalHistory)]
              IN  /\ traversalHistory' =
                         SubSeq(traversalHistory, 1, Len(traversalHistory) - 1)
                  /\ outlined' = (outlined \ {highlightElement}) \cup {child}
                  /\ highlightElement' = child
                  /\ logged' = <<"Scrolled DOWN to child:">>
                  /\ UNCHANGED <<isPickerModeActive, cursor, listeners>>
         ELSE /\ logged' = <<"At base of traversal, cannot scroll down further.">>
              /\ UNCHANGED pickerVars
    ELSE /\ logged' = <<>>
         /\ UNCHANGED pickerVars

\* the function handleWheel throttles
WheelBody(deltaY) ==
    IF highlightElement = NullElement \/ ~isPickerModeActive
    THEN /\ logged' = <<>>
         /\ UNCHANGED pickerVars
    ELSE IF deltaY < 0
    THEN LET parent == ParentElement(DOM, highlightElement)
         IN  IF parent # NullElement /\ parent # documentElement
             THEN /\ traversalHistory' = Append(traversalHistory, highlightElement)
                  /\ outlined' = (outlined \ {highlightElement}) \cup {parent}
                  /\ highlightElement' = parent
                  /\ logged' = <<"Scrolled UP to parent:">>
                  /\ UNCHANGED <<isPickerModeActive, cursor, listeners>>
             ELSE /\ logged' = <<"At root, cannot scroll up further.">>
                  /\ UNCHANGED pickerVars
    ELSE IF deltaY > 0
    THEN IF Len(traversalHistory) > 0
         THEN LET child == traversalHistory[Len(traversalHistory)]
              IN  /\ traversalHistory' =
                         SubSeq(traversalHistory, 1, Len(traversalHistory) - 1)
                  /\ outlined' = (outlined \ {highlightElement}) \cup {child}
                  /\ highlightElement' = child
                  /\ logged' = <<"Scrolled DOWN to child:">>
                  /\ UNCHANGED <<isPickerModeActive, cursor, listeners>>
         ELSE /\ logged' = <<"At base of traversal, cannot scroll down further.">>
              /\ UNCHANGED pickerVars
    ELSE /\ logged' = <<>>
         /\ UNCHANGED pickerVars

\* handleWheel: the throttle gate, then the wheel handler
handleWheel(deltaY) ==
    /\ Listener("wheel", "handleWheel", TRUE) \in listeners
    /\ IF ~inThrottleWheel
       THEN /\ defaultPrevented' = TRUE
            /\ WheelBody(deltaY)
            /\ inThrottleWheel' = TRUE
            /\ wheelTimer' = WheelLimit
       ELSE /\ defaultPrevented' = FALSE
            /\ logged' = <<>>
            /\ UNCHANGED <<pickerVars, inThrottleWheel, wheelTimer>>
    /\ UNCHANGED <<storeVars, pickerActionHistory, headStyles, inThrottleOver, overTimer, ops>>
    /\ UNCHANGED pageVars
    /\ response' = NoResponse
    /\ UNCHANGED fixedVars
    /\ Observe

\* the timer of handleWheel's gate (100 ms) runs its callback; where no clock
\* is kept this step stands for the delay passing as well
ThrottleWheelTimeout ==
    /\ inThrottleWheel
    /\ inThrottleWheel' = FALSE
    /\ wheelTimer' = 0
    /\ logged' = <<>>
    /\ defaultPrevented' = FALSE
    /\ UNCHANGED <<storeVars, pickerActionHistory, headStyles, pickerVars,
                   inThrottleOver, overTimer, ops>>
    /\ UNCHANGED pageVars
    /\ response' = NoResponse
    /\ UNCHANGED fixedVars
    /\ Observe

\* the hover gate's timer runs its callback, not before its delay has passed
MouseOverTimerFires ==
    /\ overTimer = 0
    /\ ThrottleOverTimeout

\* the wheel gate's timer runs its callback, not before its delay has passed
WheelTimerFires ==
    /\ wheelTimer = 0
    /\ ThrottleWheelTimeout

\* time passes while a gate's timer is pending
Elapse ==
    /\ overTimer > 0 \/ wheelTimer > 0
    /\ overTimer' = Max(overTimer - ThrottleTickMs, 0)
    /\ wheelTimer' = Max(wheelTimer - ThrottleTickMs, 0)
    /\ logged' = <<>>
    /\ defaultPrevented' = FALSE
    /\ UNCHANGED <<storeVars, pickerActionHistory, headStyles, pickerVars,
                   inThrottleOver, inThrottleWheel, ops>>
    /\ UNCHANGED pageVars
    /\ response' = NoResponse
    /\ UNCHANGED fixedVars
    /\ Observe

\* ------------------------------------------- popup and updateSelectors

\* popup.js, Save and Apply: the textarea's selectors become the site's set in
\* the Store, and the whole object is sent to the tab
PopupSave(selectors) ==
    /\ inbox = <<>>
    /\ storedSelectors' = WithDomain(storedSelectors, getCurrentDomainFromActiveTab,
                                  selectors)
    /\ inbox' = <<storedSelectors'>>
    /\ logged' = <<>>
    /\ defaultPrevented' = FALSE
    /\ UNCHANGED <<isPersistenceEnabled, pickerActionHistory, headStyles,
                   pickerVars, throttleVars, ops>>
    /\ UNCHANGED <<debounceTimeout, timers, reconciling, readResults, sinceBatch, burst>>
    /\ response' = NoResponse
    /\ UNCHANGED fixedVars
    /\ Observe

\* popup.js, Clear All: the site's key leaves the Store, and the whole object
\* is sent to the tab
PopupClearAll ==
    /\ inbox = <<>>
    /\ storedSelectors' = WithoutDomain(storedSelectors,
                                     getCurrentDomainFromActiveTab)
    /\ inbox' = <<storedSelectors'>>
    /\ logged' = <<>>
    /\ defaultPrevented' = FALSE
    /\ UNCHANGED <<isPersistenceEnabled, pickerActionHistory, headStyles,
                   pickerVars, throttleVars, ops>>
    /\ UNCHANGED <<debounceTimeout, timers, reconciling, readResults, sinceBatch, burst>>
    /\ response' = NoResponse
    /\ UNCHANGED fixedVars
    /\ Observe

\* an updateSelectors branch that renders the Store instead of the payload
MsgUpdateSelectorsFromStore ==
    /\ inbox # <<>>
    /\ headStyles' = updateHiddenElements(headStyles,
                        DomainSelectors(storedSelectors, getCurrentDomain))
    /\ pickerActionHistory' = <<>>
    /\ inbox' = Tail(inbox)
    /\ logged' = <<HistoryClearedLog>>
    /\ defaultPrevented' = FALSE
    /\ UNCHANGED <<storeVars, pickerVars, throttleVars, ops>>
    /\ UNCHANGED <<debounceTimeout, timers, reconciling, readResults, sinceBatch, burst>>
    /\ response' = "Selectors updated and history cleared"
    /\ UNCHANGED fixedVars
    /\ Observe

\* onMessage: request.action === 'updateSelectors'
MsgUpdateSelectors ==
    /\ inbox # <<>>
    /\ LET request         == [selectors |-> Head(inbox)]
           currentDomain   == getCurrentDomain
           domainSelectors == DomainSelectors(request.selectors, currentDomain)
       IN  headStyles' = updateHiddenElements(headStyles, domainSelectors)
    /\ pickerActionHistory' = <<>>
    /\ inbox' = Tail(inbox)
    /\ logged' = <<HistoryClearedLog>>
    /\ defaultPrevented' = FALSE
    /\ UNCHANGED <<storeVars, pickerVars, throttleVars, ops>>
    /\ Rendering(TRUE, DomainSelectors(Head(inbox), getCurrentDomain))
    /\ UNCHANGED <<reconciling, readResults>>
    /\ response' = "Selectors updated and history cleared"
    /\ UNCHANGED fixedVars
    /\ Observe

\* ------------------------------------------------------ mutation observer

\* an observer callback that arms a timer without cancelling the pending one
MutationBatchNoClear ==
    /\ timers' = Append(timers, DebounceDelay)
    /\ debounceTimeout' = "pending"
    /\ sinceBatch' = 0
    /\ burst' = Min(burst + 1, MaxBurst)
    /\ logged' = <<>>
    /\ defaultPrevented' = FALSE
    /\ UNCHANGED <<storeVars, pickerActionHistory, headStyles, pickerVars,
                   throttleVars, ops, reconciling, readResults, inbox>>
    /\ response' = NoResponse
    /\ UNCHANGED fixedVars
    /\ Observe

\* the MutationObserver callback: a batch of child-list mutations under body
MutationBatch ==
    /\ timers' = Append(ClearTimeout(timers, debounceTimeout), DebounceDelay)
    /\ debounceTimeout' = "pending"
    /\ sinceBatch' = 0
    /\ burst' = Min(burst + 1, MaxBurst)
    /\ logged' = <<>>
    /\ defaultPrevented' = FALSE
    /\ UNCHANGED <<storeVars, pickerActionHistory, headStyles, pickerVars,
                   throttleVars, ops, reconciling, readResults, inbox>>
    /\ response' = NoResponse
    /\ UNCHANGED fixedVars
    /\ Observe

\* time passes while a debounce timer is pending and none is due
Tick ==
    /\ timers # <<>>
    /\ \A k \in 1..Len(timers) : timers[k] > 0
    /\ timers' = [k \in 1..Len(timers) |-> Max(timers[k] - TickMs, 0)]
    /\ sinceBatch' = Min(sinceBatch + TickMs, DebounceDelay)
    /\ logged' = <<>>
    /\ defaultPrevented' = FALSE
    /\ UNCHANGED <<storeVars, pickerActionHistory, headStyles, pickerVars,
                   throttleVars, ops, debounceTimeout, reconciling, readResults, inbox, burst>>
    /\ response' = NoResponse
    /\ UNCHANGED fixedVars
    /\ Observe

\* a due debounce timer runs its callback up to the Store read
DebounceFires ==
    /\ reconciling < MaxRuns
    /\ \E k \in 1..Len(timers) :
          /\ timers[k] = 0
          /\ timers' = SubSeq(timers, 1, k - 1) \o SubSeq(timers, k + 1, Len(timers))
          /\ debounceTimeout' = IF k = Len(timers) /\ debounceTimeout = "pending"
                                THEN "fired" ELSE debounceTimeout
    /\ reconciling' = reconciling + 1
    /\ UNCHANGED readResults
    /\ burst' = 0
    /\ logged' = <<"DOM changed (debounced), re-applying rules.">>
    /\ defaultPrevented' = FALSE
    /\ UNCHANGED <<storeVars, pickerActionHistory, headStyles, pickerVars,
                   throttleVars, ops, inbox, sinceBatch>>
    /\ response' = NoResponse
    /\ UNCHANGED fixedVars
    /\ Observe

\* the timer callback resumed with the result of its Store read
ReconcileFulfilled ==
    /\ reconciling > 0
    /\ LET currentDomain   == getCurrentDomain
           domainSelectors == DomainSelectors(storedSelectors, currentDomain)
       IN  headStyles' = IF isPersistenceEnabled # "false" /\ Len(domainSelectors) > 0
                         THEN updateHiddenElements(headStyles, domainSelectors)
                         ELSE headStyles
    /\ reconciling' = reconciling - 1
    /\ UNCHANGED readResults
    /\ logged' = <<>>
    /\ defaultPrevented' = FALSE
    /\ UNCHANGED <<storeVars, pickerActionHistory, pickerVars, throttleVars, ops>>
    /\ Rendering(/\ isPersistenceEnabled # "false"
                 /\ Len(DomainSelectors(storedSelectors, getCurrentDomain)) > 0,
                 DomainSelectors(storedSelectors, getCurrentDomain))
    /\ UNCHANGED inbox
    /\ response' = NoResponse
    /\ UNCHANGED fixedVars
    /\ Observe

\* the timer callback: the Store read rejects
ReconcileRejected ==
    /\ reconciling > 0
    /\ reconciling' = reconciling - 1
    /\ UNCHANGED readResults
    /\ logged' = <<"Error re-applying rules in MutationObserver.">>
    /\ defaultPrevented' = FALSE
    /\ UNCHANGED <<storeVars, pickerActionHistory, headStyles, pickerVars,
                   throttleVars, ops>>
    /\ UNCHANGED <<debounceTimeout, timers, inbox, sinceBatch, burst>>
    /\ response' = NoResponse
    /\ UNCHANGED fixedVars
    /\ Observe

\* chrome.storage answers the read of a reconciliation run: the result holds
\* the Store as it is now, and the callback resumes in a later task
ReconcileRead ==
    /\ reconciling > 0
    /\ reconciling' = reconciling - 1
    /\ readResults' = Append(readResults,
                             [selectors |-> storedSelectors,
                              isPersistenceEnabled |-> isPersistenceEnabled])
    /\ logged' = <<>>
    /\ defaultPrevented' = FALSE
    /\ UNCHANGED <<storeVars, pickerActionHistory, headStyles, pickerVars,
                   throttleVars, ops>>
    /\ UNCHANGED <<debounceTimeout, timers, inbox, sinceBatch, burst>>
    /\ response' = NoResponse
    /\ UNCHANGED fixedVars
    /\ Observe

\* the timer callback resumed with a result read earlier
ReconcileResumed ==
    /\ readResults # <<>>
    /\ LET result          == Head(readResults)
           currentDomain   == getCurrentDomain
           domainSelectors == DomainSelectors(result.selectors, currentDomain)
           applies         == /\ result.isPersistenceEnabled # "false"
                              /\ Len(domainSelectors) > 0
       IN  /\ headStyles' = IF applies
                            THEN updateHiddenElements(headStyles, domainSelectors)
                            ELSE headStyles
           /\ Rendering(applies, domainSelectors)
    /\ readResults' = Tail(readResults)
    /\ logged' = <<>>
    /\ defaultPrevented' = FALSE
    /\ UNCHANGED <<storeVars, pickerActionHistory, pickerVars, throttleVars, ops>>
    /\ UNCHANGED <<reconciling, inbox>>
    /\ response' = NoResponse
    /\ UNCHANGED fixedVars
    /\ Observe

\* --------------------------------------------------------- stale context

\* The guarded content script (src/unnamed/part_002): each handler calls
\* isContextValid() before it touches chrome.storage, and each catch block
\* calls it before it logs.  Where the context is valid its handlers run the
\* statements of content.js, which the actions above model; the file's own
\* branches, and its timer callback, are the actions of this section.

\* what logger.error is called with
ErrorMessages ==
    {"An error occurred while handling the click.",
     "Error during revert action:",
     "Failed to initialize.",
     "Error re-applying rules in MutationObserver."}

\* the script before its top level has run: initialize() is yet to be called
NotStarted == [NoOp EXCEPT !.kind = "initialize", !.pc = "call"]

Started == ops[1] # NotStarted

\* the extension is reloaded or disabled: chrome.runtime.id becomes undefined
ContextInvalidated ==
    /\ contextValid
    /\ contextValid' = FALSE
    /\ logged' = <<>>
    /\ defaultPrevented' = FALSE
    /\ response' = NoResponse
    /\ UNCHANGED <<storeVars, pickerActionHistory, headStyles, pickerVars,
                   throttleVars, ops, pageVars, location, observing, doc,
                   synthesized>>
    /\ Observe

\* the top level: initialize() up to its guard or its first await, then
\* startMutationObserver()
GuardedInitialize ==
    /\ ~Started
    /\ ops' = [ops EXCEPT ![1] = IF contextValid
                                 THEN AwaitGet("initialize", "")
                                 ELSE NoOp]
    /\ logged' = <<"MutationObserver started.">>
    /\ defaultPrevented' = FALSE
    /\ response' = NoResponse
    /\ UNCHANGED <<storeVars, pickerActionHistory, headStyles, pickerVars,
                   throttleVars, pageVars>>
    /\ UNCHANGED fixedVars
    /\ Observe

\* handleMouseAction: the guard returns from the try block, finally runs
GuardedMouseAction(target, button) ==
    /\ Started
    /\ IF button = 0 /\ ~contextValid
       THEN /\ Listener("mousedown", "handleMouseAction", TRUE) \in listeners
            /\ defaultPrevented' = TRUE
            /\ deactivate
            /\ logged' = <<"Left mouse press CONFIRMED selection.">>
                         \o deactivateLog
            /\ UNCHANGED <<storeVars, pickerActionHistory, headStyles,
                           throttleVars, ops>>
            /\ UNCHANGED pageVars
            /\ response' = NoResponse
            /\ UNCHANGED fixedVars
            /\ Observe
       ELSE handleMouseAction(target, button)

\* handleMouseAction: a storage call rejects in the invalid context; the
\* catch block logs nothing, finally runs
GuardedCommitRejected(i) ==
    /\ ~contextValid
    /\ ops[i].kind = "commit"
    /\ deactivate
    /\ logged' = deactivateLog
    /\ ops' = [ops EXCEPT ![i] = NoOp]
    /\ defaultPrevented' = FALSE
    /\ UNCHANGED <<storeVars, pickerActionHistory, headStyles, throttleVars>>
    /\ UNCHANGED pageVars
    /\ response' = NoResponse
    /\ UNCHANGED fixedVars
    /\ Observe

\* revertLastAction: a storage call rejects in the invalid context
GuardedRevertRejected(i) ==
    /\ ~contextValid
    /\ ops[i].kind = "revert"
    /\ pickerActionHistory' = RevertCatch(pickerActionHistory, ops[i].selector)
    /\ ops' = [ops EXCEPT ![i] = NoOp]
    /\ logged' = <<>>
    /\ defaultPrevented' = FALSE
    /\ UNCHANGED <<storeVars, headStyles, pickerVars, throttleVars>>
    /\ UNCHANGED pageVars
    /\ response' = NoResponse
    /\ UNCHANGED fixedVars
    /\ Observe

\* initialize: the Store read rejects in the invalid context
GuardedInitializeRejected(i) ==
    /\ ~contextValid
    /\ ops[i].kind = "initialize" /\ ops[i].pc = "get"
    /\ ops' = [ops EXCEPT ![i] = NoOp]
    /\ logged' = <<>>
    /\ defaultPrevented' = FALSE
    /\ UNCHANGED <<storeVars, pickerActionHistory, headStyles, pickerVars,
                   throttleVars>>
    /\ UNCHANGED pageVars
    /\ response' = NoResponse
    /\ UNCHANGED fixedVars
    /\ Observe

\* a pending storage call settles: in a valid context as in content.js, in
\* an invalid one by rejection
GuardedSettle(i) ==
    \/ /\ Started
       /\ contextValid
       /\ \/ CommitGetFulfilled(i)
          \/ CommitSetFulfilled(i)
          \/ CommitRejected(i)
          \/ RevertGetFulfilled(i)
          \/ RevertSetFulfilled(i)
          \/ RevertRejected(i)
          \/ InitializeFulfilled(i)
          \/ InitializeRejected(i)
    \/ GuardedCommitRejected(i)
    \/ GuardedRevertRejected(i)
    \/ GuardedInitializeRejected(i)

\* the message listener's guard: the message is dropped, nothing is answered
IgnoredMessage(action) ==
    /\ Started
    /\ ~contextValid
    /\ action = "updateSelectors" => inbox # <<>>
    /\ inbox' = IF action = "updateSelectors" THEN Tail(inbox) ELSE inbox
    /\ logged' = <<"Context invalidated. Ignoring message:", action>>
    /\ defaultPrevented' = FALSE
    /\ response' = NoResponse
    /\ UNCHANGED <<storeVars, pickerActionHistory, headStyles, pickerVars,
                   throttleVars, ops>>
    /\ UNCHANGED <<debounceTimeout, timers, reconciling, readResults, sinceBatch, burst>>
    /\ UNCHANGED fixedVars
    /\ Observe

\* a guard of revertLastAction that returns without the push
GuardNoPushBack(history) == SubSeq(history, 1, Len(history) - 1)

\* revertLastAction's guard: pop, then push the popped selector back
GuardPushBack(history) ==
    LET selectorToRevert == history[Len(history)]
    IN  Append(SubSeq(history, 1, Len(history) - 1), selectorToRevert)

\* onMessage 'revertLastAction' in a context that is valid when the listener
\* checks it; it may be gone when revertLastAction checks it again
GuardedRevertLastAction ==
    /\ Started
    /\ contextValid
    /\ \E stillValid \in BOOLEAN :
          IF stillValid
          THEN MsgRevertLastAction
          ELSE /\ contextValid' = FALSE
               /\ IF Len(pickerActionHistory) = 0
                  THEN /\ logged' = <<"No actions in session history to revert.">>
                       /\ UNCHANGED pickerActionHistory
                  ELSE /\ logged' = <<"Reverting selector:">>
                       /\ pickerActionHistory' = GuardPushBack(pickerActionHistory)
               /\ defaultPrevented' = FALSE
               /\ response' = "Revert action triggered"
               /\ UNCHANGED <<storeVars, headStyles, pickerVars, throttleVars,
                              ops, pageVars, location, observing, doc,
                              synthesized>>
               /\ Observe

\* the message listener
GuardedMessage ==
    \/ \E action \in {"updateSelectors", "togglePickerMode", "revertLastAction"} :
          IgnoredMessage(action)
    \/ Started /\ contextValid /\ MsgUpdateSelectors
    \/ Started /\ contextValid /\ MsgTogglePickerMode
    \/ GuardedRevertLastAction

\* the MutationObserver callback, while the observer is connected
GuardedMutationBatch ==
    /\ Started
    /\ observing
    /\ MutationBatch

\* a due debounce timer runs its callback: in an invalid context it
\* disconnects the observer and returns
GuardedDebounceFires ==
    /\ Started
    /\ IF contextValid
       THEN DebounceFires
       ELSE /\ \E k \in 1..Len(timers) :
                  /\ timers[k] = 0
                  /\ timers' = SubSeq(timers, 1, k - 1)
                               \o SubSeq(timers, k + 1, Len(timers))
                  /\ debounceTimeout' =
                        IF k = Len(timers) /\ debounceTimeout = "pending"
                        THEN "fired" ELSE debounceTimeout
            /\ observing' = FALSE
            /\ logged' = <<"MutationObserver stopped: Context became invalid.">>
            /\ defaultPrevented' = FALSE
            /\ response' = NoResponse
            /\ UNCHANGED <<storeVars, pickerActionHistory, headStyles,
                           pickerVars, throttleVars, ops, reconciling, readResults, inbox,
                           sinceBatch, burst, location, contextValid, doc,
                           synthesized>>
            /\ Observe

\* the timer callback resumed with the result of its Store read: the set
\* read is rendered, empty or not, unless the flag is false
GuardedReconcileFulfilled ==
    /\ contextValid
    /\ reconciling > 0
    /\ LET currentDomain   == getCurrentDomain
           domainSelectors == DomainSelectors(storedSelectors, currentDomain)
       IN  /\ headStyles' = IF isPersistenceEnabled # "false"
                            THEN updateHiddenElements(headStyles, domainSelectors)
                            ELSE headStyles
           /\ Rendering(isPersistenceEnabled # "false", domainSelectors)
    /\ reconciling' = reconciling - 1
    /\ UNCHANGED readResults
    /\ logged' = <<>>
    /\ defaultPrevented' = FALSE
    /\ UNCHANGED <<storeVars, pickerActionHistory, pickerVars, throttleVars, ops>>
    /\ UNCHANGED inbox
    /\ response' = NoResponse
    /\ UNCHANGED fixedVars
    /\ Observe

\* the timer callback: the Store read rejects; the catch block logs in a
\* valid context only
GuardedReconcileRejected ==
    /\ reconciling > 0
    /\ reconciling' = reconciling - 1
    /\ UNCHANGED readResults
    /\ logged' = IF contextValid
                 THEN <<"Error re-applying rules in MutationObserver.">>
                 ELSE <<>>
    /\ defaultPrevented' = FALSE
    /\ UNCHANGED <<storeVars, pickerActionHistory, headStyles, pickerVars,
                   throttleVars, ops>>
    /\ UNCHANGED <<debounceTimeout, timers, inbox, sinceBatch, burst>>
    /\ response' = NoResponse
    /\ UNCHANGED fixedVars
    /\ Observe

\* --------------------------------------------------- the synthesizer, run

\* generateSelector(el) on the document
Synthesize(el) ==
    /\ synthesized' = [el |-> el, selector |-> generateSelector(doc, el)]
    /\ logged' = <<>>
    /\ defaultPrevented' = FALSE
    /\ response' = NoResponse
    /\ UNCHANGED <<storeVars, pickerActionHistory, headStyles, pickerVars,
                   throttleVars, ops, pageVars, location, contextValid,
                   observing, doc>>
    /\ Observe

\* ---------------------------------------------------------- specification

\* the Store when the page loads
InitialStores ==
    { NoSites,
      [k \in {"a.com"} |-> <<".ad">>],
      [k \in {"a.com", "b.org"} |-> IF k = "a.com" THEN <<>> ELSE <<".banner">>] }

\* elements the user presses the primary button on
Targets == {3, 4}
\* event.button values
Buttons == {0, 2}
\* event.deltaY values
Deltas == {-100, 100}

\* the page of an https site
HttpsPage == [protocol |-> "https:", hostname |-> "a.com"]

\* the content script when it has run to the end of its top level
Loaded ==
    /\ pickerActionHistory = <<>>
    /\ headStyles = <<>>
    /\ isPickerModeActive = FALSE
    /\ highlightElement = NullElement
    /\ traversalHistory = <<>>
    /\ inThrottleOver = FALSE
    /\ overTimer = 0
    /\ inThrottleWheel = FALSE
    /\ wheelTimer = 0
    /\ outlined = {}
    /\ cursor = ""
    /\ listeners = {}
    /\ ops = [i \in Slots |-> IF i = 1 THEN AwaitGet("initialize", "") ELSE NoOp]
    /\ defaultPrevented = FALSE
    /\ logged = <<"MutationObserver started.">>
    /\ trip = NoTrip
    /\ entryHistory = [i \in Slots |-> <<>>]
    /\ wheelTrip = NoWheel
    /\ debounceTimeout = "undefined"
    /\ timers = <<>>
    /\ reconciling = 0
    /\ readResults = <<>>
    /\ inbox = <<>>
    /\ sinceBatch = DebounceDelay
    /\ burst = 0
    /\ response = NoResponse
    /\ staleOps = {}
    /\ earlierSession = {}
    /\ contextValid = TRUE
    /\ observing = TRUE
    /\ doc = DOM
    /\ synthesized = NoSelector

Init ==
    /\ storedSelectors \in InitialStores
    /\ isPersistenceEnabled \in {"undefined", "false"}
    /\ location = HttpsPage
    /\ Loaded

\* a pending storage call of handler invocation i settles
Settle(i) ==
    \/ CommitGetFulfilled(i)
    \/ CommitSetFulfilled(i)
    \/ CommitRejected(i)
    \/ RevertGetFulfilled(i)
    \/ RevertSetFulfilled(i)
    \/ RevertRejected(i)
    \/ InitializeFulfilled(i)
    \/ InitializeRejected(i)

\* the page with the pointer at rest: messages, keys, presses, storage
Next ==
    \/ MsgTogglePickerMode
    \/ handleKeydownCancel
    \/ \E t \in Targets, b \in Buttons : handleMouseAction(t, b)
    \/ MsgRevertLastAction
    \/ \E i \in Slots : Settle(i)

Spec == Init /\ [][Next]_vars

\* elements the user presses on when the pointer is over the page's margin:
\* the document root, and an element of the body
RootTargets == {1, 3}

\* the page where presses land on the document root as well
RootNext ==
    \/ MsgTogglePickerMode
    \/ handleKeydownCancel
    \/ \E t \in RootTargets, b \in Buttons : handleMouseAction(t, b)
    \/ MsgRevertLastAction
    \/ \E i \in Slots : Settle(i)

RootSpec == Init /\ [][RootNext]_vars

\* a pending storage call settles, on a page that receives no revert message
PickerSettle(i) ==
    \/ CommitGetFulfilled(i)
    \/ CommitSetFulfilled(i)
    \/ CommitRejected(i)
    \/ InitializeFulfilled(i)
    \/ InitializeRejected(i)

\* the picker with the pointer moving and the wheel turning
PickerNext ==
    \/ MsgTogglePickerMode
    \/ handleKeydownCancel
    \/ \E t \in Targets, b \in Buttons : handleMouseAction(t, b)
    \/ \E i \in Slots : PickerSettle(i)
    \/ \E t \in Elements : throttledMouseOver(t)
    \/ \E t \in Elements : handleMouseOut(t)
    \/ \E d \in Deltas : handleWheel(d)
    \/ ThrottleOverTimeout
    \/ ThrottleWheelTimeout

\* the picker's page: nothing stored yet for any site
PickerInit ==
    /\ Init
    /\ storedSelectors = NoSites
    /\ isPersistenceEnabled = "undefined"

PickerSpec == PickerInit /\ [][PickerNext]_vars

\* the picker under a clock: hovers, wheel events, the gates' timers and the
\* time between them
ThrottleNext ==
    \/ MsgTogglePickerMode
    \/ \E i \in Slots : InitializeFulfilled(i)
    \/ \E t \in Elements : throttledMouseOver(t)
    \/ \E t \in Elements : handleMouseOut(t)
    \/ \E d \in Deltas : handleWheel(d)
    \/ MouseOverTimerFires
    \/ WheelTimerFires
    \/ Elapse

ThrottleSpec == PickerInit /\ [][ThrottleNext]_vars

\* every pending storage call eventually settles
FairSpec == Spec /\ \A i \in Slots : WF_vars(Settle(i))

\* the selector lists saved from the popup's textarea
SavedSelectors == { <<".pop">> }

\* the page and its popup: toggle messages, primary presses on div#x, storage,
\* the popup's buttons and the messages they send
PageNext ==
    \/ MsgTogglePickerMode
    \/ \E t \in {3} : handleMouseAction(t, 0)
    \/ \E i \in Slots : PickerSettle(i)
    \/ \E s \in SavedSelectors : PopupSave(s)
    \/ PopupClearAll
    \/ MsgUpdateSelectors

\* a page of a site that has one selector stored
PageInit ==
    /\ Init
    /\ storedSelectors = [k \in {"a.com"} |-> <<".ad">>]

PageSpec == PageInit /\ [][PageNext]_vars

\* the Store read of initialize settles
InitializeSettle(i) ==
    \/ InitializeFulfilled(i)
    \/ InitializeRejected(i)

\* the Store read of a reconciliation run settles
ReconcileSettle ==
    \/ ReconcileFulfilled
    \/ ReconcileRejected

\* the page with a changing document and its popup: mutation batches, the
\* clock, the debounce timer, reconciliation runs, the popup's buttons
ObserverNext ==
    \/ \E i \in Slots : InitializeSettle(i)
    \/ \E s \in SavedSelectors : PopupSave(s)
    \/ PopupClearAll
    \/ MsgUpdateSelectors
    \/ MutationBatch
    \/ Tick
    \/ DebounceFires
    \/ ReconcileSettle

ObserverSpec == PageInit /\ [][ObserverNext]_vars

\* time passes, due timers run, and pending Store reads settle
FairObserverSpec ==
    /\ ObserverSpec
    /\ WF_vars(Tick)
    /\ WF_vars(DebounceFires)
    /\ WF_vars(ReconcileSettle)

\* the page of a local file
FilePage == [protocol |-> "file:", hostname |-> ""]

\* the kinds of page the content script is injected in
Locations == {HttpsPage, FilePage}

\* the Store when a page loads, that of a local file included
LoadStores == InitialStores \cup { [k \in {"file://"} |-> <<".local">>] }

\* the tab loads the page again: the script starts anew, on the same Store
PageLoad ==
    /\ ~Loaded
    /\ pickerActionHistory' = <<>>
    /\ headStyles' = <<>>
    /\ isPickerModeActive' = FALSE
    /\ highlightElement' = NullElement
    /\ traversalHistory' = <<>>
    /\ inThrottleOver' = FALSE
    /\ overTimer' = 0
    /\ inThrottleWheel' = FALSE
    /\ wheelTimer' = 0
    /\ outlined' = {}
    /\ cursor' = ""
    /\ listeners' = {}
    /\ ops' = [i \in Slots |-> IF i = 1 THEN AwaitGet("initialize", "") ELSE NoOp]
    /\ defaultPrevented' = FALSE
    /\ logged' = <<"MutationObserver started.">>
    /\ trip' = NoTrip
    /\ entryHistory' = [i \in Slots |-> <<>>]
    /\ wheelTrip' = NoWheel
    /\ debounceTimeout' = "undefined"
    /\ timers' = <<>>
    /\ reconciling' = 0
    /\ readResults' = <<>>
    /\ inbox' = <<>>
    /\ sinceBatch' = DebounceDelay
    /\ burst' = 0
    /\ response' = NoResponse
    /\ staleOps' = {}
    /\ earlierSession' = {}
    /\ contextValid' = TRUE
    /\ observing' = TRUE
    /\ doc' = DOM
    /\ synthesized' = NoSelector
    /\ UNCHANGED <<storeVars, location>>

\* the page from its load on, with its popup
LoadNext ==
    \/ PageNext
    \/ PageLoad

LoadInit ==
    /\ storedSelectors \in LoadStores
    /\ isPersistenceEnabled \in {"undefined", "true", "false"}
    /\ location \in Locations
    /\ Loaded

LoadSpec == LoadInit /\ [][LoadNext]_vars

\* the page and its popup, with revert messages as well
HistoryNext ==
    \/ PageNext
    \/ MsgRevertLastAction
    \/ \E i \in Slots : \/ RevertGetFulfilled(i)
                        \/ RevertSetFulfilled(i)
                        \/ RevertRejected(i)

HistorySpec == PageInit /\ [][HistoryNext]_vars

\* the Store holds one selector for the site and persistence is enabled
ConsistencyInit ==
    /\ Init
    /\ storedSelectors = [k \in {"a.com"} |-> <<".ad">>]
    /\ isPersistenceEnabled = "undefined"

\* no reconciliation run is between its timer and the end of its callback
NoRun == reconciling = 0 /\ readResults = <<>>

\* the page with the picker, revert messages and a changing document: commits,
\* reverts and reconciliation runs interleave; of the storage calls only the
\* read of initialize can fail; the document changes one batch at a time and
\* only between reconciliation runs
ConsistencyNext ==
    \/ MsgTogglePickerMode
    \/ \E t \in {3} : handleMouseAction(t, 0)
    \/ MsgRevertLastAction
    \/ \E i \in Slots : \/ CommitGetFulfilled(i)
                        \/ CommitSetFulfilled(i)
                        \/ RevertGetFulfilled(i)
                        \/ RevertSetFulfilled(i)
                        \/ InitializeFulfilled(i)
                        \/ InitializeRejected(i)
    \/ NoRun /\ timers = <<>> /\ MutationBatch
    \/ Tick
    \/ NoRun /\ DebounceFires
    \/ ReconcileRead
    \/ ReconcileResumed

ConsistencySpec == ConsistencyInit /\ [][ConsistencyNext]_vars

\* the guarded content script, from before its top level runs, on a page
\* whose extension may be reloaded at any moment
StaleInit ==
    /\ storedSelectors = [k \in {"a.com"} |-> <<".ad">>]
    /\ isPersistenceEnabled = "undefined"
    /\ location = HttpsPage
    /\ pickerActionHistory = <<>>
    /\ headStyles = <<>>
    /\ isPickerModeActive = FALSE
    /\ highlightElement = NullElement
    /\ traversalHistory = <<>>
    /\ inThrottleOver = FALSE
    /\ overTimer = 0
    /\ inThrottleWheel = FALSE
    /\ wheelTimer = 0
    /\ outlined = {}
    /\ cursor = ""
    /\ listeners = {}
    /\ ops = [i \in Slots |-> IF i = 1 THEN NotStarted ELSE NoOp]
    /\ defaultPrevented = FALSE
    /\ logged = <<>>
    /\ trip = NoTrip
    /\ entryHistory = [i \in Slots |-> <<>>]
    /\ wheelTrip = NoWheel
    /\ debounceTimeout = "undefined"
    /\ timers = <<>>
    /\ reconciling = 0
    /\ readResults = <<>>
    /\ inbox = <<>>
    /\ sinceBatch = DebounceDelay
    /\ burst = 0
    /\ response = NoResponse
    /\ staleOps = {}
    /\ earlierSession = {}
    /\ contextValid \in BOOLEAN
    /\ observing = TRUE
    /\ doc = DOM
    /\ synthesized = NoSelector

\* the user, the popup and the page act one at a time: an event arrives when
\* no handler awaits storage
Calm == Quiet(ops)

StaleNext ==
    \/ ContextInvalidated
    \/ GuardedInitialize
    \/ \E t \in {3} : (contextValid => Calm) /\ GuardedMouseAction(t, 0)
    \/ \E i \in Slots : GuardedSettle(i)
    \/ (contextValid => Calm \/ inbox # <<>>) /\ GuardedMessage
    \/ \E s \in SavedSelectors : Started /\ contextValid /\ Calm /\ PopupSave(s)
    \/ (contextValid => Calm) /\ GuardedMutationBatch
    \/ Started /\ Tick
    \/ GuardedDebounceFires
    \/ GuardedReconcileFulfilled
    \/ GuardedReconcileRejected

StaleSpec == StaleInit /\ [][StaleNext]_vars

\* the synthesizer on every element of every document
SynthInit ==
    /\ storedSelectors = NoSites
    /\ isPersistenceEnabled = "undefined"
    /\ location = HttpsPage
    /\ pickerActionHistory = <<>>
    /\ headStyles = <<>>
    /\ isPickerModeActive = FALSE
    /\ highlightElement = NullElement
    /\ traversalHistory = <<>>
    /\ inThrottleOver = FALSE
    /\ overTimer = 0
    /\ inThrottleWheel = FALSE
    /\ wheelTimer = 0
    /\ outlined = {}
    /\ cursor = ""
    /\ listeners = {}
    /\ ops = [i \in Slots |-> NoOp]
    /\ defaultPrevented = FALSE
    /\ logged = <<>>
    /\ trip = NoTrip
    /\ entryHistory = [i \in Slots |-> <<>>]
    /\ wheelTrip = NoWheel
    /\ debounceTimeout = "undefined"
    /\ timers = <<>>
    /\ reconciling = 0
    /\ readResults = <<>>
    /\ inbox = <<>>
    /\ sinceBatch = DebounceDelay
    /\ burst = 0
    /\ response = NoResponse
    /\ staleOps = {}
    /\ earlierSession = {}
    /\ contextValid = TRUE
    /\ observing = TRUE
    /\ doc \in Documents
    /\ synthesized = NoSelector

SynthNext == \E el \in 1..(MaxChildren + 3) : Synthesize(el)

SynthSpec == SynthInit /\ [][SynthNext]_vars

\* ----------------------------------------------------------------- claims

\* the Selector Set of the current site in the Store
CurrentSet == DomainSelectors(storedSelectors, getCurrentDomain)

\* the style a render of `selectors` leaves: no element for the empty set, else
\* one element with one rule per selector, in order
RenderedAs(head, selectors) ==
    IF selectors = <<>> THEN head = <<>>
    ELSE /\ Len(head) = 1
         /\ Len(head[1]) = Len(selectors)
         /\ \A k \in 1..Len(selectors) :
                head[1][k] = selectors[k] \o " { display: none !important; }"

\* the first message of a step's logger output, "" when it logged nothing
First(messages) == IF messages = <<>> THEN "" ELSE messages[1]

\* slot i's handler ends at this step
Ends(i, kind) == ops[i].kind = kind /\ ops'[i].kind = "none"

\* no storage call is issued at this step, other than by slot i's handler
IssuesNothingBut(i) == \A j \in Slots \ {i} : ops'[j] = ops[j]

\* C1: a commit whose Store read finds the selector s absent from the current
\* site's set S, and whose Store write succeeds, ends with the Store holding
\* S with s appended for that site, with exactly one style element holding one
\* rule per selector of that new set in order, and with s on top of the history.
C1_CommitAppends ==
    [][\A i \in Slots :
          /\ (/\ ops[i].kind = "commit" /\ ops[i].pc = "get"
              /\ ops'[i].pc = "set")
             => /\ ops'[i].domainSelectors = CurrentSet
                /\ ~ \E k \in 1..Len(CurrentSet) : CurrentSet[k] = ops[i].selector
                /\ ops'[i].selector = ops[i].selector
          /\ (/\ Ends(i, "commit") /\ ops[i].pc = "set"
              /\ First(logged') = "Selector saved and applied for domain:")
             => /\ CurrentSet' = Append(ops[i].domainSelectors, ops[i].selector)
                /\ RenderedAs(headStyles', CurrentSet')
                /\ pickerActionHistory'
                     = Append(pickerActionHistory, ops[i].selector)
      ]_vars

\* C1 witness: Store {} on a.com, commit of #x: Store {a.com: [#x]}, one rule
C1_Witness ==
    /\ First(logged) = "Selector saved and applied for domain:"
    /\ storedSelectors = [k \in {"a.com"} |-> <<"#x">>]
    /\ headStyles = << <<"#x { display: none !important; }">> >>
    /\ pickerActionHistory = <<"#x">>

\* C2: a commit whose Store read finds its selector already in the current
\* site's set issues no Store write and leaves the Store, the rendered style
\* and the history unchanged.
C2_CommitIdempotent ==
    [][\A i \in Slots :
          (/\ ops[i].kind = "commit" /\ ops[i].pc = "get"
           /\ ops'[i] # ops[i]
           /\ \E k \in 1..Len(CurrentSet) : CurrentSet[k] = ops[i].selector)
          => /\ ops'[i].kind = "none"
             /\ IssuesNothingBut(i)
             /\ UNCHANGED <<storedSelectors, headStyles, pickerActionHistory>>
      ]_vars

\* C2 witness: the same selector committed a second time, after the first
\* commit stored and pushed it
C2_Witness ==
    /\ First(logged) = "Selector already exists for domain:"
    /\ pickerActionHistory = <<"#x">>
    /\ CurrentSet = <<".ad", "#x">>

\* C3: a revert with non-empty history pops the last-pushed selector; when its
\* Store read and write succeed the current site's set becomes the set it read
\* without that selector, the other selectors in their order; the site key is
\* deleted when that set is empty, never left with an empty array; and the
\* style is rendered from the resulting set.
C3_RevertRemoves ==
    [][/\ (logged' = <<"Reverting selector:">>)
          => /\ pickerActionHistory # <<>>
             /\ pickerActionHistory'
                  = SubSeq(pickerActionHistory, 1, Len(pickerActionHistory) - 1)
             /\ \E i \in Slots :
                   /\ ops[i].kind = "none" /\ IssuesNothingBut(i)
                   /\ ops'[i].kind = "revert" /\ ops'[i].pc = "get"
                   /\ ops'[i].selector
                        = pickerActionHistory[Len(pickerActionHistory)]
       /\ \A i \in Slots :
          /\ (/\ ops[i].kind = "revert" /\ ops[i].pc = "get"
              /\ ops'[i].pc = "set")
             => /\ ops'[i].domainSelectors = CurrentSet
                /\ ops'[i].selector = ops[i].selector
          /\ (/\ Ends(i, "revert") /\ ops[i].pc = "set"
              /\ logged' = <<>>)
             => /\ CurrentSet' = SelectSeq(ops[i].domainSelectors,
                                           LAMBDA s : s # ops[i].selector)
                /\ (getCurrentDomain \in DOMAIN storedSelectors'
                      <=> CurrentSet' # <<>>)
                /\ RenderedAs(headStyles', CurrentSet')
      ]_vars

\* C3 witness: the only selector of the site was reverted and the site key is
\* gone from the Store, which still holds the other site
C3_Witness ==
    /\ storedSelectors = [k \in {"b.org"} |-> <<".banner">>]
    /\ pickerActionHistory = <<>>
    /\ headStyles = <<>>
    /\ Quiet(ops)

\* C4: a commit that added a selector, followed by a revert with no other
\* handler in between, both succeeding, leaves the current site's Selector Set
\* and the history as they were before the commit.
C4_RoundTrip ==
    trip.phase = "reverted"
    => /\ CurrentSet = trip.domainSelectors
       /\ pickerActionHistory = trip.history

\* C4 witness: a round trip from a site that had a selector stored
C4_Witness ==
    /\ trip.phase = "reverted"
    /\ trip.domainSelectors = <<".ad">>

\* C5: a revert message received while the history is empty issues no Store
\* call and changes nothing of the Store, the style, the history or the picker.
C5_RevertEmptyNoop ==
    [][(MsgRevertLastAction /\ pickerActionHistory = <<>>)
          => UNCHANGED <<storeVars, headStyles, pickerActionHistory, ops,
                         pickerVars>>
      ]_vars

\* C5 witness: the warning of the empty-history branch, on a styled page with
\* the picker active
C5_Witness ==
    /\ logged = <<"No actions in session history to revert. NormalMSG">>
    /\ pickerActionHistory = <<>>
    /\ isPickerModeActive
    /\ headStyles # <<>>

\* C6 as stated: when a revert's Store call fails, the history is again what it
\* was before the revert, the popped selector on top; the Store and the style
\* are unchanged and no storage call is issued.
C6_RevertFailureRestores ==
    [][\A i \in Slots :
          (Ends(i, "revert") /\ logged' = <<"Error during revert action:">>)
          => /\ pickerActionHistory' = entryHistory[i]
             /\ pickerActionHistory'[Len(pickerActionHistory')] = ops[i].selector
             /\ UNCHANGED <<storedSelectors, headStyles>>
             /\ IssuesNothingBut(i)
      ]_vars

\* C7: when a commit's Store read or write fails, the history, the style and
\* the Store are unchanged, no storage call is issued, and the picker is
\* inactive.
C7_CommitFailureContained ==
    [][\A i \in Slots :
          (/\ Ends(i, "commit")
           /\ First(logged') = "An error occurred while handling the click.")
          => /\ UNCHANGED <<storedSelectors, headStyles, pickerActionHistory>>
             /\ IssuesNothingBut(i)
             /\ ~isPickerModeActive'
      ]_vars

\* C7 witness: a failed commit deactivated the picker
C7_Witness ==
    /\ logged = <<"An error occurred while handling the click.",
                  "Picker mode DEACTIVATED.">>
    /\ ~isPickerModeActive

\* C8: every commit started by a primary pointer-down ends, whatever its
\* outcome, and the picker is inactive when it has ended.
C8_CommitEndsInactive ==
    \A i \in Slots :
        (ops[i].kind = "commit")
            ~> (ops[i].kind = "none" /\ ~isPickerModeActive)

\* C8 witness: a commit that stored its selector deactivated the picker
C8_Witness ==
    /\ logged = <<"Selector saved and applied for domain:",
                  "Picker mode DEACTIVATED.">>
    /\ ~isPickerModeActive
    /\ Quiet(ops)

\* C9: the five picker listeners are attached exactly when the active flag is
\* true, each once.
C9_ListenersIffActive ==
    /\ isPickerModeActive \in BOOLEAN
    /\ listeners =
         IF isPickerModeActive
         THEN { [type |-> "mouseover", handler |-> "throttledMouseOver", capture |-> FALSE],
                [type |-> "mouseout", handler |-> "handleMouseOut", capture |-> FALSE],
                [type |-> "mousedown", handler |-> "handleMouseAction", capture |-> TRUE],
                [type |-> "keydown", handler |-> "handleKeydownCancel", capture |-> TRUE],
                [type |-> "wheel", handler |-> "handleWheel", capture |-> TRUE] }
         ELSE {}

\* C9 witness: a second session, in use, after a first one was deactivated
C9_Witness ==
    /\ isPickerModeActive
    /\ Cardinality(listeners) = 5
    /\ highlightElement # NullElement
    /\ pickerActionHistory # <<>>

\* C10: a key press, a pointer-down with a non-primary button and a toggle
\* message received while active each leave the picker inactive at once, start
\* no commit and change neither Store, style nor history; a toggle message
\* received while inactive leaves it active.
C10_CancelIsSynchronous ==
    [][/\ (\/ First(logged') = "Key press detected. Cancelling selection."
           \/ First(logged') = "Mouse button press detected. Cancelling selection.")
          => /\ ~isPickerModeActive'
             /\ ops' = ops
             /\ UNCHANGED <<storedSelectors, headStyles, pickerActionHistory>>
       /\ MsgTogglePickerMode
          => /\ isPickerModeActive' = ~isPickerModeActive
             /\ ops' = ops
             /\ UNCHANGED <<storedSelectors, headStyles, pickerActionHistory>>
      ]_vars

\* C10 witness: a key press cancelled an active picker that had a highlight
C10_Witness ==
    /\ logged = <<"Key press detected. Cancelling selection.",
                  "Picker mode DEACTIVATED.">>
    /\ ~isPickerModeActive
    /\ traversalHistory # <<>>

\* C11: at most one element carries the picker's outline, and it is the
\* highlighted element; while the picker is inactive no element is outlined
\* and the highlight reference is null; deactivate called while the picker is
\* already inactive (the finally block of a commit that ends after a cancel)
\* changes nothing of the picker.
C11_SingleOutline ==
    /\ [](/\ Cardinality(outlined) <= 1
          /\ outlined = (IF highlightElement = NullElement THEN {}
                         ELSE {highlightElement})
          /\ ~isPickerModeActive
             => (outlined = {} /\ highlightElement = NullElement))
    /\ [][\A i \in Slots :
             (Ends(i, "commit") /\ ~isPickerModeActive)
             => UNCHANGED pickerVars
         ]_vars

\* C11 witness: the outline moved by the wheel from div#x to body, alone
C11_Witness ==
    /\ isPickerModeActive
    /\ highlightElement = 2
    /\ outlined = {2}
    /\ traversalHistory = <<3>>

\* C12: a toggle message, a key press, a pointer-down with a non-primary
\* button, a hover, a pointer-leave and a wheel event leave the Store, the
\* rendered style and the session history unchanged and issue no storage call.
C12_PickerFrame ==
    [][(\/ MsgTogglePickerMode
        \/ handleKeydownCancel
        \/ \E t \in Targets : handleMouseAction(t, 2)
        \/ \E t \in Elements : throttledMouseOver(t)
        \/ \E t \in Elements : handleMouseOut(t)
        \/ \E d \in Deltas : handleWheel(d))
       => UNCHANGED <<storedSelectors, isPersistenceEnabled, headStyles,
                      pickerActionHistory, ops>>
      ]_vars

\* C12 witness: a wheel step on a page that has a stored selector, a rendered
\* style and a session history
C12_Witness ==
    /\ logged = <<"Scrolled UP to parent:">>
    /\ pickerActionHistory # <<>>
    /\ headStyles # <<>>
    /\ CurrentSet # <<>>

\* C13: a handled wheel step toward the parent with B highlighted pushes B and
\* highlights B's parent, unless the parent is absent or the document root,
\* when nothing changes; a handled step back pops the top of the stack and
\* highlights it, and changes nothing on an empty stack; k steps toward the
\* parent then k steps back after a hover restore the hovered element and an
\* empty stack.
C13_WheelReversible ==
    /\ [][/\ First(logged') \in UpMessages
             => LET B == highlightElement
                    P == ParentElement(DOM, B)
                IN  /\ B # NullElement
                    /\ IF P # NullElement /\ P # documentElement
                       THEN /\ traversalHistory' = Append(traversalHistory, B)
                            /\ highlightElement' = P
                            /\ outlined' = {P}
                       ELSE UNCHANGED <<highlightElement, traversalHistory,
                                        outlined>>
          /\ First(logged') \in DownMessages
             => IF traversalHistory # <<>>
                THEN /\ highlightElement' = traversalHistory[Len(traversalHistory)]
                     /\ outlined' = {highlightElement'}
                     /\ traversalHistory'
                          = SubSeq(traversalHistory, 1, Len(traversalHistory) - 1)
                ELSE UNCHANGED <<highlightElement, traversalHistory, outlined>>
         ]_vars
    /\ []((/\ wheelTrip.base # NullElement
           /\ wheelTrip.up > 0
           /\ wheelTrip.down = wheelTrip.up)
          => /\ highlightElement = wheelTrip.base
             /\ traversalHistory = <<>>)

\* C13 witness: from span.y three steps toward the parent (the third stopped
\* below the document root) and three steps back
C13_Witness ==
    /\ wheelTrip = [base |-> 4, up |-> 3, down |-> 3]
    /\ highlightElement = 4
    /\ logged = <<"At base of traversal, cannot scroll down further.">>

\* C14: a handled hover leaves its target as the only outlined element and the
\* highlight, and empties the traversal stack; activation empties the stack;
\* after a hover, until the wheel moves toward the parent, the highlight stays
\* the hovered element whatever the wheel did before that hover.
C14_HoverResetsTraversal ==
    /\ [][/\ \A t \in Elements :
                (throttledMouseOver(t) /\ ~inThrottleOver)
                => /\ highlightElement' = t
                   /\ outlined' = {t}
                   /\ traversalHistory' = <<>>
          /\ (~isPickerModeActive /\ isPickerModeActive')
             => traversalHistory' = <<>>
         ]_vars
    /\ []((wheelTrip.base # NullElement /\ wheelTrip.up = 0)
          => /\ highlightElement = wheelTrip.base
             /\ traversalHistory = <<>>)

\* C14 witness: span.hover-z hovered, then a wheel step back that found the
\* stack empty
C14_Witness ==
    /\ wheelTrip = [base |-> 5, up |-> 0, down |-> 0]
    /\ logged = <<"At base of traversal, cannot scroll down further.">>
    /\ highlightElement = 5

\* C15 as stated: a primary pointer-down received after the wheel moved the
\* highlight from the hovered element to an ancestor commits the selector of
\* the highlighted element.
C15_CommitsHighlighted ==
    [][(/\ logged' = <<"Left mouse press CONFIRMED selection.">>
        /\ wheelTrip.base # NullElement
        /\ wheelTrip.up > 0 /\ wheelTrip.down = 0
        /\ highlightElement # wheelTrip.base)
       => \E i \in Slots :
             /\ ops[i].kind = "none" /\ ops'[i].kind = "commit"
             /\ ops'[i].selector = generateSelector(DOM, highlightElement)
      ]_vars

\* C16 as stated: every wheel event received while the picker is active has
\* its default action prevented.
C16_WheelAlwaysSuppressed ==
    [][(isPickerModeActive /\ \E d \in Deltas : handleWheel(d))
       => defaultPrevented'
      ]_vars

\* C17: the document never holds more than one style element of the
\* applicator; an invocation with a non-empty set, by a commit, by initialize
\* or by an updateSelectors message, leaves exactly one element with one rule
\* per selector in order, and an invocation with an empty or missing set leaves
\* none, whatever was rendered before.
C17_SingleStyleElement ==
    /\ [](Len(headStyles) <= 1)
    /\ [][/\ \A i \in Slots :
                /\ (/\ Ends(i, "commit")
                    /\ First(logged') = "Selector saved and applied for domain:")
                   => /\ ops[i].newDomainSelectors # <<>>
                      /\ RenderedAs(headStyles', ops[i].newDomainSelectors)
                /\ (/\ Ends(i, "initialize") /\ logged' = <<>>
                    /\ isPersistenceEnabled # "false" /\ CurrentSet # <<>>)
                   => RenderedAs(headStyles', CurrentSet)
          /\ (logged' = <<HistoryClearedLog>>)
             => /\ inbox # <<>>
                /\ RenderedAs(headStyles',
                              DomainSelectors(Head(inbox), getCurrentDomain))
         ]_vars

\* C17 witness: an updateSelectors message without the site's key, on a page
\* where persistence is enabled and initialize has ended: no style element
C17_Witness ==
    /\ logged = <<"Session history cleared due to manual update from popup.">>
    /\ getCurrentDomain \notin DOMAIN storedSelectors
    /\ isPersistenceEnabled = "undefined"
    /\ headStyles = <<>>

\* C18 as stated: at most one commit or revert is between its Store read and
\* the completion of its Store write at any time.
C18_OneReadModifyWrite ==
    Cardinality(Pending("commit") \cup Pending("revert")) <= 1

\* C19: a batch cancels the pending timer and arms one with the fixed delay,
\* so at most one timer is pending; a run starts only after the whole delay
\* passed without a batch, and only once for the batches before it; and a
\* pending timer that no further batch re-arms does run.
C19_Debounced ==
    /\ [](Len(timers) <= 1)
    /\ [][/\ MutationBatch
             => timers' = <<DebounceDelay>> /\ debounceTimeout' = "pending"
          /\ (logged' = <<"DOM changed (debounced), re-applying rules.">>)
             => /\ sinceBatch >= DebounceDelay
                /\ burst >= 1
                /\ timers' = <<>>
         ]_vars
    /\ (timers # <<>> /\ sinceBatch > 0) ~> (timers = <<>> \/ sinceBatch = 0)

\* C19 witness: a run started by the one timer left by a burst of batches,
\* while the run before it still waits for its Store read
C19_Witness ==
    /\ logged = <<"DOM changed (debounced), re-applying rules.">>
    /\ reconciling = 2
    /\ timers = <<>>
    /\ sinceBatch = DebounceDelay

\* C20 as stated: a reconciliation run whose Store read succeeds while
\* persistence is enabled leaves the rendered rules equal to the set it read
\* for the current site, and leaves the picker, the Store and the history.
C20_ReconcileRendersStore ==
    [][(ReconcileFulfilled /\ isPersistenceEnabled # "false")
       => /\ RenderedAs(headStyles', CurrentSet)
          /\ UNCHANGED <<pickerVars, storeVars, pickerActionHistory>>
      ]_vars

\* --- the synthesizer's result, against the element it was given

HasAttribute(el, attr) ==
    \E i \in 1..Len(doc[el].attrs) : doc[el].attrs[i][1] = attr

Priority == <<"data-testid", "data-cy", "data-test", "name", "aria-label">>

\* no stable attribute of el has a non-empty value
NoStableValue(el) ==
    \A k \in 1..Len(Priority) : GetAttribute(doc, el, Priority[k]) = <<>>

\* C28: an element with a non-empty value for some stable attribute gets
\* tag[attr="value"], with the lower-cased tag and the first attribute of the
\* priority order whose value is non-empty, whatever its identifier and classes
C28_StableAttributeFirst ==
    synthesized # NoSelector =>
        LET el == synthesized.el
        IN  \A k \in 1..Len(Priority) :
              ( /\ GetAttribute(doc, el, Priority[k]) # <<>>
                /\ \A j \in 1..(k - 1) : GetAttribute(doc, el, Priority[j]) = <<>> )
              => synthesized.selector =
                    Str(ToLowerCase(doc[el].tagName)) \o "[" \o Priority[k]
                    \o "=\"" \o Str(GetAttribute(doc, el, Priority[k])) \o "\"]"

\* a <p id="q" class="y" name="n" data-cy="c"> was given: data-cy wins
C28_Witness ==
    /\ synthesized # NoSelector
    /\ doc[synthesized.el].id # <<>>
    /\ doc[synthesized.el].classList # <<>>
    /\ GetAttribute(doc, synthesized.el, "name") # <<>>
    /\ doc[synthesized.el].attrs[1][1] = "name"
    /\ synthesized.selector = "p[data-cy=\"c\"]"

\* the punctuation set the escaping is described with
Punctuation ==
    {"#", ";", "&", ",", ".", "+", "*", "~", "'", "\"", "!", "^", "$",
     "[", "]", "(", ")", "<", "=", ">", "|", "/"}

RECURSIVE Prefixed(_, _)
\* cs with one backslash before every character of set
Prefixed(cs, set) ==
    IF cs = <<>> THEN ""
    ELSE (IF Head(cs) \in set THEN "\\" \o Head(cs) ELSE Head(cs))
         \o Prefixed(Tail(cs), set)

IdentifierForm(set) ==
    synthesized # NoSelector =>
        LET el == synthesized.el
        IN  ( /\ \A k \in 1..Len(Priority) : ~HasAttribute(el, Priority[k])
              /\ doc[el].id # <<>> )
            => synthesized.selector = "#" \o Prefixed(doc[el].id, set)

\* C29: an element with no stable attribute and a non-empty identifier gets
\* '#' and the identifier, in which every character of the punctuation set
\* and every colon has one backslash before it, and every other character is
\* copied
C29_IdentifierEscaped == IdentifierForm(Punctuation \cup {":"})

\* the identifier m:n# was given
C29_Witness ==
    /\ synthesized # NoSelector
    /\ doc[synthesized.el].attrs = <<>>
    /\ doc[synthesized.el].id = <<"m", ":", "n", "#">>
    /\ synthesized.selector = "#m\\:n\\#"

\* C29 as stated: only the characters of the punctuation set are prefixed
C29_OnlyPunctuationEscaped == IdentifierForm(Punctuation)

\* the same-tag children of el's parent
SameTagSiblings(el) ==
    {s \in 1..Len(doc) : /\ doc[s].parent = doc[el].parent
                         /\ doc[s].tagName = doc[el].tagName}

RECURSIVE KeptClasses(_)
\* the classes of a segment: those without hover, active or focus in them
KeptClasses(classes) ==
    IF classes = <<>> THEN ""
    ELSE (IF \/ Contains(Head(classes), <<"h","o","v","e","r">>)
             \/ Contains(Head(classes), <<"a","c","t","i","v","e">>)
             \/ Contains(Head(classes), <<"f","o","c","u","s">>)
          THEN ""
          ELSE "." \o Prefixed(Head(classes), Punctuation \cup {":"}))
         \o KeptClasses(Tail(classes))

ExpectedSegment(el) ==
    Str(ToLowerCase(doc[el].tagName))
    \o KeptClasses(doc[el].classList)
    \o (IF Cardinality(SameTagSiblings(el)) > 1
        THEN ":nth-of-type("
             \o ToString(Cardinality({s \in SameTagSiblings(el) : s <= el}))
             \o ")"
        ELSE "")

RECURSIVE ExpectedPath(_)
\* the segments from the topmost element that has a parent down to el
ExpectedPath(el) ==
    IF doc[el].parent = NullElement THEN ""
    ELSE IF doc[doc[el].parent].parent = NullElement THEN ExpectedSegment(el)
    ELSE ExpectedPath(doc[el].parent) \o " > " \o ExpectedSegment(el)

\* C30: in the path form a segment has :nth-of-type(k) exactly when more than
\* one child of the parent has the element's tag name, k being its 1-based
\* position among them; the segments are joined root-to-leaf with ' > '; the
\* classes with hover, active or focus in their name are left out
C30_PathSegments ==
    synthesized # NoSelector =>
        LET el == synthesized.el
        IN  (NoStableValue(el) /\ doc[el].id = <<>>)
            => synthesized.selector = ExpectedPath(el)

\* the third of three <span> children of <body>, with a class to leave out
C30_Witness ==
    /\ synthesized # NoSelector
    /\ synthesized.el = 5
    /\ Cardinality(SameTagSiblings(5)) = 3
    /\ \E c \in 1..Len(doc[5].classList) :
          Contains(doc[5].classList[c], <<"a","c","t","i","v","e">>)
    /\ synthesized.selector = "body > span.y\\.z:nth-of-type(3)"

\* --- page load and the popup's messages

\* C22: initialize renders the stored set of the current Site Key exactly when
\* the persistence flag is not false (absent counts as true) and the set is
\* not empty; with the flag false it renders nothing; it never writes the
\* Store; a failed Store read is caught and leaves the style as it was
C22_InitializeRenders ==
    [][\A i \in Slots : Ends(i, "initialize") =>
          /\ storeVars' = storeVars
          /\ IssuesNothingBut(i)
          /\ IF First(logged') = "Failed to initialize."
             THEN headStyles' = headStyles
             ELSE IF isPersistenceEnabled # "false" /\ CurrentSet # <<>>
             THEN RenderedAs(headStyles', CurrentSet)
             ELSE headStyles' = headStyles]_vars

\* initialize has rendered .ad on a page whose flag is stored as true
C22_Witness ==
    /\ isPersistenceEnabled = "true"
    /\ CurrentSet = <<".ad">>
    /\ RenderedAs(headStyles, <<".ad">>)
    /\ Quiet(ops)
    /\ pickerActionHistory = <<>>

\* C23: handling an updateSelectors message empties the history, renders
\* exactly the set the payload holds for the current Site Key (no style
\* element when it holds none), issues no Store call, leaves the Store and the
\* picker alone, and answers with a status
C23_UpdateSelectorsApplied ==
    [][(logged' = <<HistoryClearedLog>>) =>
          /\ pickerActionHistory' = <<>>
          /\ RenderedAs(headStyles',
                        DomainSelectors(Head(inbox), getCurrentDomain))
          /\ storeVars' = storeVars
          /\ ops' = ops
          /\ pickerVars' = pickerVars
          /\ response' = "Selectors updated and history cleared"]_vars

\* the answer was sent while the picker was active, and the saved list shows
C23_Witness ==
    /\ response = "Selectors updated and history cleared"
    /\ isPickerModeActive
    /\ RenderedAs(headStyles, <<".pop">>)
    /\ pickerActionHistory = <<>>

\* C24: once an updateSelectors message has been handled, no handler that was
\* in flight when it was handled puts a selector into the history
C24_HistoryClearedForGood ==
    [][\A i \in staleOps :
          ops'[i] # ops[i]
          => Len(pickerActionHistory') <= Len(pickerActionHistory)]_vars

\* the list the popup's own Site Key has in a Store object
PopupSet(allSelectors) ==
    DomainSelectors(allSelectors, getCurrentDomainFromActiveTab)

\* C26: the list saved from the popup is what the page shows when the message
\* is handled, and what initialize shows on a later load with persistence on
C26_SavedListRendered ==
    /\ [][(logged' = <<HistoryClearedLog>> /\ PopupSet(Head(inbox)) # <<>>)
          => RenderedAs(headStyles', PopupSet(Head(inbox)))]_vars
    /\ [][\A i \in Slots :
            ( /\ Ends(i, "initialize")
              /\ First(logged') # "Failed to initialize."
              /\ isPersistenceEnabled # "false"
              /\ PopupSet(storedSelectors) # <<>> )
            => RenderedAs(headStyles', PopupSet(storedSelectors))]_vars

\* the popup's Clear All acts at this step
ClearAllStep ==
    /\ inbox = <<>>
    /\ inbox' # <<>>
    /\ getCurrentDomainFromActiveTab \notin DOMAIN Head(inbox')

\* C27: Clear All takes the page's Site Key out of the Store and leaves the
\* other keys and the persistence flag as they were; the message it sends
\* then removes the style element and empties the history
C27_ClearAllFrame ==
    /\ [][ClearAllStep =>
            /\ getCurrentDomain \notin DOMAIN storedSelectors'
            /\ \A k \in (DOMAIN storedSelectors) \ {getCurrentDomain} :
                  /\ k \in DOMAIN storedSelectors'
                  /\ storedSelectors'[k] = storedSelectors[k]
            /\ DOMAIN storedSelectors' \subseteq DOMAIN storedSelectors
            /\ isPersistenceEnabled' = isPersistenceEnabled]_vars
    /\ [][( /\ logged' = <<HistoryClearedLog>>
            /\ getCurrentDomainFromActiveTab \notin DOMAIN Head(inbox) )
          => (headStyles' = <<>> /\ pickerActionHistory' = <<>>)]_vars

\* --- the observer and the applicator

\* C21: the applicator's removal and re-creation of the style element arms
\* no timer, so that a timer is armed by a mutation batch under <body> only;
\* and unless such batches keep coming, the page settles with no timer
\* pending and no reconciliation run under way
C21_NoSelfTrigger ==
    /\ [][(timers' # timers \/ debounceTimeout' # debounceTimeout)
          => (MutationBatch \/ Tick \/ DebounceFires)]_vars
    /\ ([]<><<MutationBatch>>_vars) \/ <>[](timers = <<>> /\ reconciling = 0)

\* a reconciliation run has rendered the stored set and nothing is pending
C21_Witness ==
    /\ debounceTimeout = "fired"
    /\ timers = <<>>
    /\ reconciling = 0
    /\ logged = <<>>
    /\ CurrentSet # <<>>
    /\ RenderedAs(headStyles, CurrentSet)

\* --- the invalidated extension context

\* a step of a guard: no storage call is issued, Store and style stay
GuardFrame ==
    /\ ops' = ops
    /\ reconciling' = reconciling
    /\ storeVars' = storeVars
    /\ headStyles' = headStyles

ClassSelectors(classes) ==
    LET n == Len(classes)
        picks == UNION {[1..m -> 1..n] : m \in 0..n}
        Compound(q) == Str([k \in 1..Len(q) |->
                              "." \o Prefixed(classes[q[k]], Punctuation \cup {":"})])
    IN  {Compound(q) : q \in {r \in picks : \A a, b \in 1..Len(r) :
                                                 r[a] = r[b] => a = b}}

\* the segments (type selector, classes, position) an element answers to
SegmentSelectors(el) ==
    LET nth == ":nth-of-type("
               \o ToString(Cardinality({s \in SameTagSiblings(el) : s <= el}))
               \o ")"
    IN  {Str(ToLowerCase(doc[el].tagName)) \o c \o p :
            c \in ClassSelectors(doc[el].classList), p \in {"", nth}}

RECURSIVE PathSelectors(_)
\* the child-combinator chains an element answers to
PathSelectors(el) ==
    IF doc[el].parent = NullElement THEN SegmentSelectors(el)
    ELSE SegmentSelectors(el)
         \cup {p \o " > " \o c : p \in PathSelectors(doc[el].parent),
                                 c \in SegmentSelectors(el)}

\* tag[attr="value"] for the attributes of el whose value has no quote in it
AttributeSelectors(el) ==
    {Str(ToLowerCase(doc[el].tagName)) \o "[" \o doc[el].attrs[i][1] \o "=\""
     \o Str(doc[el].attrs[i][2]) \o "\"]" :
        i \in {k \in 1..Len(doc[el].attrs) :
                 \A c \in 1..Len(doc[el].attrs[k][2]) :
                    doc[el].attrs[k][2][c] # "\""}}

IdSelectors(el) ==
    IF doc[el].id = <<>> THEN {}
    ELSE {"#" \o Prefixed(doc[el].id, Punctuation \cup {":"})}

\* document.querySelectorAll(selector), for the selectors the synthesizer
\* can write; a string that is no selector matches nothing
QuerySelectorAll(selector) ==
    {el \in 1..Len(doc) :
        selector \in AttributeSelectors(el) \cup IdSelectors(el)
                     \cup PathSelectors(el)}

\* C31: the selector returned for an element matches that element and no
\* other element of the document
C31_SelectorUnique ==
    synthesized # NoSelector
    => QuerySelectorAll(synthesized.selector) = {synthesized.el}

\* C36: Session History never holds the same selector twice
C36_HistoryDistinct ==
    \A a, b \in 1..Len(pickerActionHistory) :
        pickerActionHistory[a] = pickerActionHistory[b] => a = b

\* C35: with no commit and no revert in flight, every selector of Session
\* History is in the Store's set for the current key
C35_HistoryInStore ==
    (\A i \in Slots : ops[i].kind \notin {"commit", "revert"})
    => \A a \in 1..Len(pickerActionHistory) :
          Includes(CurrentSet, pickerActionHistory[a])

\* C33: the Store write of a commit or revert keeps every selector that is in
\* the current site's set when the write completes and was not in the set the
\* operation read (another write added it since), the reverted one excepted
C33_NoLostUpdate ==
    [][\A i \in Slots :
          (/\ ops[i].kind \in {"commit", "revert"}
           /\ ops[i].pc = "set"
           /\ ops'[i].kind = "none")
          => \A a \in 1..Len(CurrentSet) :
                (/\ ~Includes(ops[i].domainSelectors, CurrentSet[a])
                 /\ ~(ops[i].kind = "revert" /\ CurrentSet[a] = ops[i].selector))
                => Includes(CurrentSet', CurrentSet[a])
      ]_vars

\* C38: no selector in the Store's set for the current site, and none in
\* Session History, is the empty string
C38_SelectorsNonEmpty ==
    /\ \A a \in 1..Len(CurrentSet) : CurrentSet[a] # ""
    /\ \A a \in 1..Len(pickerActionHistory) : pickerActionHistory[a] # ""

\* C32: a commit that began in an earlier picker session (it was in flight
\* when the picker was last activated) leaves the picker as it is when it ends
C32_SessionEndsItself ==
    [][\A i \in earlierSession :
          Ends(i, "commit") => UNCHANGED pickerVars
      ]_vars

\* C37: while the picker is active the Traversal Stack is a chain of
\* ancestors: the parent of each entry is the entry above it, and the parent
\* of the top entry is the Highlighted Element when there is one; so a handled
\* wheel step toward the child lands on a child of the element highlighted
\* before it
C37_StackIsAncestorChain ==
    /\ [](isPickerModeActive
          => /\ \A k \in 1..(Len(traversalHistory) - 1) :
                   ParentElement(DOM, traversalHistory[k]) = traversalHistory[k + 1]
             /\ (highlightElement # NullElement /\ traversalHistory # <<>>)
                => ParentElement(DOM, traversalHistory[Len(traversalHistory)])
                   = highlightElement)
    /\ [][(logged' = <<"Scrolled DOWN to child:">>)
          => ParentElement(DOM, highlightElement') = highlightElement
         ]_vars

\* C37 witness: two handled steps toward the parent, from the span to body
C37_Witness ==
    /\ isPickerModeActive
    /\ logged = <<"Scrolled UP to parent:">>
    /\ Len(traversalHistory) = 2
    /\ highlightElement = ParentElement(DOM, traversalHistory[2])
    /\ highlightElement # NullElement

\* C39: a hover or wheel event that finds its gate open is handled at once and
\* closes the gate with a timer of the limit (50 ms hover, 100 ms wheel); one
\* that finds it closed changes nothing; the gate opens again only when the
\* limit has passed since the event that closed it, and the step that opens it
\* handles no event; so an event is handled only when the limit has passed
\* since the last handled event of its kind
C39_LeadingEdgeGate ==
    /\ [][/\ \A t \in Elements :
                /\ (throttledMouseOver(t) /\ ~inThrottleOver)
                   => /\ highlightElement' = t
                      /\ inThrottleOver' /\ overTimer' = 50
                /\ (throttledMouseOver(t) /\ inThrottleOver)
                   => UNCHANGED <<pickerVars, throttleVars>>
          /\ \A d \in Deltas :
                /\ (handleWheel(d) /\ ~inThrottleWheel)
                   => /\ defaultPrevented'
                      /\ inThrottleWheel' /\ wheelTimer' = 100
                /\ (handleWheel(d) /\ inThrottleWheel)
                   => UNCHANGED <<pickerVars, throttleVars>>
          /\ (inThrottleOver /\ ~inThrottleOver')
             => overTimer = 0 /\ UNCHANGED pickerVars
          /\ (inThrottleWheel /\ ~inThrottleWheel')
             => wheelTimer = 0 /\ UNCHANGED pickerVars
          /\ overTimer' > overTimer => ~inThrottleOver /\ inThrottleOver'
          /\ wheelTimer' > wheelTimer => ~inThrottleWheel /\ inThrottleWheel'
          /\ overTimer' < overTimer
             => /\ overTimer' = Max(overTimer - ThrottleTickMs, 0)
                /\ UNCHANGED <<pickerVars, inThrottleOver, inThrottleWheel>>
          /\ wheelTimer' < wheelTimer
             => /\ wheelTimer' = Max(wheelTimer - ThrottleTickMs, 0)
                /\ UNCHANGED <<pickerVars, inThrottleOver, inThrottleWheel>>
         ]_vars
    /\ [](~inThrottleOver => overTimer = 0)
    /\ [](~inThrottleWheel => wheelTimer = 0)

\* C39 witness: a second wheel step toward the parent is handled, its gate
\* having opened again, while the hover gate is still closed with its limit
\* passed: the next hover is dropped and the highlight stays on body
C39_Witness ==
    /\ logged = <<"Scrolled UP to parent:">>
    /\ Len(traversalHistory) = 2
    /\ inThrottleWheel /\ wheelTimer = 100
    /\ inThrottleOver /\ overTimer = 0

\* C34: with persistence enabled, when no handler awaits the Store, no
\* reconciliation run is in flight and no debounce timer is pending, the
\* rendered rules are those of the Store's set for the current site
C34_QuiescentConsistency ==
    (/\ isPersistenceEnabled # "false"
     /\ Quiet(ops)
     /\ reconciling = 0 /\ readResults = <<>>
     /\ timers = <<>>)
    => RenderedAs(headStyles, CurrentSet)

====
